---- MODULE Spec2Model ----
(***************************************************************************)
(* State-machine model of the 2GIS scraper: the retry wrapper (withRetry), *)
(* the review pagination engine (scrapeReviews), the field normalizer      *)
(* (extractOrganization), the scrape orchestrator (scrapeSearchResults)    *)
(* and the CLI entry point that validates options before invoking it.      *)
(***************************************************************************)
EXTENDS Integers, Sequences, FiniteSets, TLC

VARIABLES
    \* ---- withRetry (src/src/scraper/helpers.ts) ----
    rPc,          \* "idle" | "loop" | "catch" | "done" | "threw"
    rOp,          \* which operation fn is: "generic" | "org" | "navigate" | "results"
    rMaxRetries,  \* the maxRetries argument
    rAttempt,     \* the loop variable attempt
    rCalls,       \* number of invocations of fn so far (history)
    rFails,       \* number of invocations of fn that threw (history)
    rSleeps,      \* the sleep(ms) calls made so far, in order (history)
    rResult,      \* the value returned
    rPlan,        \* SpecRetry only: what the k-th invocation of fn does
    \* ---- scrapeReviews (src/src/scraper/reviews.ts) ----
    vPc,          \* "idle" | "goto" | "waitState" | "bulk" | "loop" | "click"
                  \* | "scrape" | "return" | "catch" | "done" | "threw"
    vMaxReviews,  \* the maxReviews argument
    reviews,      \* the accumulator `reviews` (review ids, in insertion order)
    reviewIds,    \* the Set `reviewIds`
    clickCount,   \* the local clickCount
    vAdded,       \* addedCount of the last click cycle (-1: no cycle yet)
    vResult,      \* the list returned
    vProductive,  \* number of clicks whose scrape held an unseen id (history)
    vFailedAt,    \* the step that threw, "none" if none did (history)
    \* ---- extractOrganization (src/scraper/organization.ts) ----
    nPc,          \* "idle" | "start" | "done"
    nSource,      \* "detail": a raw item of a detail page; "listing": a search listing
    nDevs,        \* how the raw item differs from BaseItem (history)
    nItem,        \* the raw item
    nRecord,      \* the record built from it
    nRecord2,     \* the record a second call on the same item builds
    \* ---- scripts/scrape.ts main and scrapeSearchResults ----
    oPc,            \* where control is, "validate" .. "returned" | "threw" | "exit1"
    options,        \* the ScraperOptions object (never written after Init)
    browser,        \* "none" | "open" | "closed"
    closeCalls,     \* number of closeBrowser calls so far (history)
    organizations,  \* the output list organizations
    rawData,        \* the output list rawData
    targets,        \* orgIds (from-list) or firmUrls (search), as read
    totalToScrape,  \* number of targets selected
    basicData,      \* list mode: what page.evaluate returned
    oI,             \* the loop index i (0-based, as in the code)
    successCount,
    failureCount,
    oExc,           \* the exception in flight, "none" if none
    oLog,           \* per target handed to withRetry: target, fn calls, outcome (history)
    exitCode,       \* process exit code, -1 while running
    \* ---- findContact (src/utils.ts) called on its own ----
    fcPc,           \* "idle" | "start" | "done"
    fcItem,         \* the item argument
    fcType,         \* the contactType argument
    fcResult,       \* what the call did: thrown, or the value returned
    \* ---- extractDataFromPage called on its own ----
    xPc,            \* "idle" | "start" | "done"
    xCapturing,     \* does the caller pass capturedResponses (part_000) or not (helpers.ts)
    xCaptured,      \* capturedResponses
    xState,         \* what evaluating window.initialState in the page gives
    xResult,        \* what the call returned
    \* ---- scrapeSingleOrganization, running as withRetry's fn ----
    sPc,            \* "idle" | "goto" | "wait" | "extract" | "check" | "reviews"
                    \* | "inReviews" (scrapeReviews is running) | "return"
    sState,         \* window.initialState of the page loaded by this attempt
    sExtraction,    \* what extractDataFromPage returned
    sOrg,           \* the organization record being built
    sReviewLog,     \* the targets scrapeReviews was invoked for, in order (history)
    sNulls,         \* attempts of the pending withRetry call that extracted null (history)
    sDelayMs,       \* options.delayMs
    sWaited,        \* ms slept since the last page.goto was issued, -1 before the first
    \* ---- extractReviewsFromDOM (src/src/scraper/reviews.ts) ----
    dPc,            \* "idle" | "start" | "done"
    dLinks,         \* the a._1msln3t elements of the document, in document order
    dResult,        \* the list the call returned
    \* ---- ScraperRepository.readListFile (src/unnamed/part_015) ----
    lPc,            \* "idle" | "start" | "done" | "threw"
    lFile,          \* JSON.parse(content)
    lResult,        \* the ListData returned, or the error thrown
    \* ---- the response-capturing scraper (src/unnamed/part_000) ----
    cPc,            \* "idle" | "loop" | "call" | "goto" | "sleep" | "extract" | "goBack"
                    \* | "pause" | "done"
    cTotal,         \* totalToScrape
    cMaxRetries,    \* options.maxRetries
    cI,             \* the loop index i (0-based)
    cAttempt,       \* withRetry's attempt for the current target
    cDoc,           \* the document the page shows: 0 the search page, t target t's page
    cCaptured,      \* capturedResponses
    cPending,       \* documents whose byid response is inside `await response.json()`
    cEmitted,       \* documents whose byid response has fired the handler (history)
    cUsed           \* per successful attempt: the target and the extraction (history)

retryVars == <<rPc, rOp, rMaxRetries, rAttempt, rCalls, rFails, rSleeps, rResult, rPlan>>

revVars == <<vPc, vMaxReviews, reviews, reviewIds, clickCount, vAdded, vResult,
             vProductive, vFailedAt>>

normVars == <<nPc, nSource, nDevs, nItem, nRecord, nRecord2>>

orchVars == <<oPc, options, browser, closeCalls, organizations, rawData, targets,
              totalToScrape, basicData, oI, successCount, failureCount, oExc, oLog,
              exitCode>>

contactVars == <<fcPc, fcItem, fcType, fcResult>>

extractVars == <<xPc, xCapturing, xCaptured, xState, xResult>>

pageVars == <<sPc, sState, sExtraction, sOrg, sReviewLog, sNulls>>

clockVars == <<sDelayMs, sWaited>>

domVars == <<dPc, dLinks, dResult>>

\* the variables the orchestrator and the older specifications leave alone
listVars == <<lPc, lFile, lResult>>

captureVars == <<cPc, cTotal, cMaxRetries, cI, cAttempt, cDoc, cCaptured, cPending,
                 cEmitted, cUsed>>

unitVars == <<contactVars, extractVars, pageVars, clockVars, domVars, listVars, captureVars>>

vars == <<retryVars, revVars, normVars, orchVars, unitVars>>

(***************************************************************************)
(* Bounds of the model.                                                    *)
(***************************************************************************)
MaxRetriesBound == 4
MaxReviewsBound == 3   \* largest maxReviews tried
MaxIds == 3            \* review ids are 1..MaxIds
MaxBatch == 2          \* longest list one DOM scrape returns
MaxDeviations == 2     \* a raw item differs from BaseItem in at most so many properties
MaxTargets == 2        \* organization pages are 1..MaxTargets
MaxLinks == 2          \* longest list file / longest list of search result links
MaxRecordsBound == 2   \* largest maxRecords tried
MaxOrchRetries == 2    \* largest maxRetries tried by the orchestrator
MaxGroups == 2         \* most contact groups of an item given to findContact
MaxContacts == 2       \* most contacts in one contact group
MaxCaptured == 2       \* most intercepted responses held when extraction runs
MaxProfiles == 2       \* most entries of the embedded state's entity-profile map
MaxRendered == 22      \* reviews of a long feed, and the largest maxReviews tried on it
MaxDomLinks == 2       \* most review text links in the document
MaxSvgs == 6           \* most svg[fill="currentColor"] elements inside one container
MaxListEntries == 2    \* most entries in the data array of a list file

(***************************************************************************)
(* Values.                                                                 *)
(***************************************************************************)
Null == [kind |-> "null", target |-> 0]
Throw == [kind |-> "throw", target |-> 0]
Value(t) == [kind |-> "value", target |-> t]

Range(s) == {s[k] : k \in 1..Len(s)}

\* sequences over S of length exactly n
RECURSIVE SeqsOfLen(_, _)
SeqsOfLen(S, n) ==
    IF n = 0 THEN {<<>>}
    ELSE {Append(s, x) : s \in SeqsOfLen(S, n - 1), x \in S}

SeqsUpTo(S, n) == UNION {SeqsOfLen(S, k) : k \in 0..n}

(***************************************************************************)
(* withRetry: for (attempt = 1; attempt <= maxRetries; attempt++)          *)
(*   try { return await fn() } catch { final ? return null : sleep }      *)
(***************************************************************************)
\* the loop condition, helpers.ts line 38
RetryLoopGuardOffByOne(attempt, maxRetries) == attempt < maxRetries
RetryLoopGuard(attempt, maxRetries) == attempt <= maxRetries

\* the test in the catch block, helpers.ts line 43
RetryIsFinal(attempt, maxRetries) == attempt = maxRetries

\* the backoff, helpers.ts line 48
RetryBackoffExponential(attempt) == 1000 * (2 ^ (attempt - 1))
RetryBackoff(attempt) == 1000 * attempt

\* the call `withRetry(fn, maxRetries, ...)`: control enters the for loop
RetryBegin(op, maxRetries) ==
    /\ rPc' = "loop"
    /\ rOp' = op
    /\ rMaxRetries' = maxRetries
    /\ rAttempt' = 1
    /\ rCalls' = 0
    /\ rFails' = 0
    /\ rSleeps' = <<>>
    /\ rResult' = Null

\* one `return await fn()` in which fn does `o`: it returns a value (which
\* withRetry returns at once, null included) or throws (caught at line 41)
RetryInvokeNoReturn(o) ==
    /\ rPc = "loop"
    /\ RetryLoopGuard(rAttempt, rMaxRetries)
    /\ rCalls' = rCalls + 1
    /\ IF o.kind = "throw"
         THEN /\ rPc' = "catch"
              /\ rFails' = rFails + 1
              /\ rResult' = rResult
              /\ rAttempt' = rAttempt
         ELSE /\ rPc' = "loop"
              /\ rFails' = rFails
              /\ rResult' = o
              /\ rAttempt' = rAttempt + 1
    /\ UNCHANGED <<rOp, rMaxRetries, rSleeps>>
RetryInvoke(o) ==
    /\ rPc = "loop"
    /\ RetryLoopGuard(rAttempt, rMaxRetries)
    /\ rCalls' = rCalls + 1
    /\ IF o.kind = "throw"
         THEN /\ rPc' = "catch"
              /\ rFails' = rFails + 1
              /\ rResult' = rResult
         ELSE /\ rPc' = "done"
              /\ rFails' = rFails
              /\ rResult' = o
    /\ UNCHANGED <<rOp, rMaxRetries, rAttempt, rSleeps>>

\* the catch block on the last attempt: log the error, return null
RetryCatchFinalRethrow ==
    /\ rPc = "catch"
    /\ RetryIsFinal(rAttempt, rMaxRetries)
    /\ rPc' = "threw"
    /\ rResult' = Throw
    /\ UNCHANGED <<rOp, rMaxRetries, rAttempt, rCalls, rFails, rSleeps>>
RetryCatchFinal ==
    /\ rPc = "catch"
    /\ RetryIsFinal(rAttempt, rMaxRetries)
    /\ rPc' = "done"
    /\ rResult' = Null
    /\ UNCHANGED <<rOp, rMaxRetries, rAttempt, rCalls, rFails, rSleeps>>

\* the catch block on an earlier attempt: warn, sleep(1000 * attempt), attempt++
RetryCatchBackoffSameAttempt ==
    /\ rPc = "catch"
    /\ ~RetryIsFinal(rAttempt, rMaxRetries)
    /\ rSleeps' = Append(rSleeps, RetryBackoff(rAttempt))
    /\ rAttempt' = rAttempt
    /\ rPc' = "loop"
    /\ UNCHANGED <<rOp, rMaxRetries, rCalls, rFails, rResult>>
RetryCatchBackoff ==
    /\ rPc = "catch"
    /\ ~RetryIsFinal(rAttempt, rMaxRetries)
    /\ rSleeps' = Append(rSleeps, RetryBackoff(rAttempt))
    /\ rAttempt' = rAttempt + 1
    /\ rPc' = "loop"
    /\ UNCHANGED <<rOp, rMaxRetries, rCalls, rFails, rResult>>

\* the loop condition is false: fall through to `return null` (line 51)
RetryFallThrough ==
    /\ rPc = "loop"
    /\ ~RetryLoopGuard(rAttempt, rMaxRetries)
    /\ rPc' = "done"
    /\ rResult' = Null
    /\ UNCHANGED <<rOp, rMaxRetries, rAttempt, rCalls, rFails, rSleeps>>

(***************************************************************************)
(* withRetry on its own: the caller passes any maxRetries and an operation *)
(* whose k-th invocation behaves as rPlan[k].                              *)
(***************************************************************************)
PlanOutcomes == {Throw, Null, Value(1)}

RetryIdle ==
    /\ rPc = "idle"
    /\ rOp = "generic"
    /\ rMaxRetries = 0
    /\ rAttempt = 1
    /\ rCalls = 0
    /\ rFails = 0
    /\ rSleeps = <<>>
    /\ rResult = Null
    /\ rPlan = <<>>

RetryInit ==
    /\ rPc = "loop"
    /\ rOp = "generic"
    /\ rMaxRetries \in 0..MaxRetriesBound
    /\ rAttempt = 1
    /\ rCalls = 0
    /\ rFails = 0
    /\ rSleeps = <<>>
    /\ rResult = Null
    /\ rPlan \in SeqsOfLen(PlanOutcomes, MaxRetriesBound)

RetryPlanned ==
    /\ rCalls < Len(rPlan)
    /\ RetryInvoke(rPlan[rCalls + 1])
    /\ UNCHANGED rPlan

(***************************************************************************)
(* scrapeReviews: navigate, bulk read from initialState, then DOM          *)
(* pagination with the "load more" button.  A review is modelled by its id.*)
(***************************************************************************)
Ids == 1..MaxIds

\* the safety limit `const maxClicks = 20`, reviews.ts line 154
MaxClicks == 20

Min(a, b) == IF a < b THEN a ELSE b

\* Array.prototype.slice(0, n) for n >= 0
Slice(s, n) == SubSeq(s, 1, Min(n, Len(s)))

\* the keys of state.data.review are the keys of an object: no id twice
BulkBatches == {b \in SeqsUpTo(Ids, MaxIds) : Cardinality(Range(b)) = Len(b)}

\* what one extractReviewsFromDOM call may return: the pseudo ids of the
\* rendered reviews, which may repeat (seenTexts compares whole texts only)
DomBatches == SeqsUpTo(Ids, MaxBatch)

\* the two `for (const review of ...)` loops, reviews.ts lines 141-147 and
\* 176-183: break at the cap, skip ids already in reviewIds, else push.
\* Returns the accumulator, the id set and the number of reviews added.
RECURSIVE MergeNoDedup(_, _, _, _, _)
MergeNoDedup(acc, ids, batch, max, added) ==
    IF batch = <<>> \/ Len(acc) >= max
      THEN [reviews |-> acc, ids |-> ids, added |-> added]
      ELSE MergeNoDedup(Append(acc, Head(batch)), ids \cup {Head(batch)},
                        Tail(batch), max, added + 1)
RECURSIVE MergeNoCap(_, _, _, _, _)
MergeNoCap(acc, ids, batch, max, added) ==
    IF batch = <<>>
      THEN [reviews |-> acc, ids |-> ids, added |-> added]
      ELSE IF Head(batch) \notin ids
        THEN MergeNoCap(Append(acc, Head(batch)), ids \cup {Head(batch)},
                        Tail(batch), max, added + 1)
        ELSE MergeNoCap(acc, ids, Tail(batch), max, added)
RECURSIVE MergeBatch(_, _, _, _, _)
MergeBatch(acc, ids, batch, max, added) ==
    IF batch = <<>> \/ Len(acc) >= max
      THEN [reviews |-> acc, ids |-> ids, added |-> added]
      ELSE IF Head(batch) \notin ids
        THEN MergeBatch(Append(acc, Head(batch)), ids \cup {Head(batch)},
                        Tail(batch), max, added + 1)
        ELSE MergeBatch(acc, ids, Tail(batch), max, added)

\* `if (reviews.length < maxReviews)`, reviews.ts line 152
PaginateWantedAlways(len, max) == TRUE
PaginateWanted(len, max) == len < max

\* the condition of the while loop, reviews.ts line 156
PaginateGuardNoClickLimit(len, max, clicks) == len < max
PaginateGuard(len, max, clicks) == len < max /\ clicks < MaxClicks

\* `if (addedCount === 0) break`, reviews.ts line 189
FeedExhaustedNever(added) == FALSE
FeedExhausted(added) == added = 0

RevIdle ==
    /\ vPc = "idle"
    /\ vMaxReviews = 0
    /\ reviews = <<>>
    /\ reviewIds = {}
    /\ clickCount = 0
    /\ vAdded = -1
    /\ vResult = <<>>
    /\ vProductive = 0
    /\ vFailedAt = "none"

\* the call scrapeReviews(page, firmId, maxReviews, logger), lines 116-117
RevBegin(maxReviews) ==
    /\ vPc' = "goto"
    /\ vMaxReviews' = maxReviews
    /\ reviews' = <<>>
    /\ reviewIds' = {}
    /\ clickCount' = 0
    /\ vAdded' = -1
    /\ vResult' = <<>>
    /\ vProductive' = 0
    /\ vFailedAt' = "none"

\* a step inside the try block throws: control goes to the catch, line 199
RevFail(step) ==
    /\ vPc = step
    /\ vPc' = "catch"
    /\ vFailedAt' = step
    /\ UNCHANGED <<vMaxReviews, reviews, reviewIds, clickCount, vAdded, vResult,
                   vProductive>>

\* page.goto(reviewsUrl) resolves
RevGoto ==
    /\ vPc = "goto"
    /\ vPc' = "waitState"
    /\ UNCHANGED <<vMaxReviews, reviews, reviewIds, clickCount, vAdded, vResult,
                   vProductive, vFailedAt>>

\* page.waitForFunction(initialState defined) and waitForTimeout(500) resolve
RevWaitState ==
    /\ vPc = "waitState"
    /\ vPc' = "bulk"
    /\ UNCHANGED <<vMaxReviews, reviews, reviewIds, clickCount, vAdded, vResult,
                   vProductive, vFailedAt>>

\* extractReviewsFromInitialState returns `batch`, one of `batches`; add the
\* initial reviews; enter the pagination only `if (reviews.length < maxReviews)`
RevBulkReadFrom(batches) ==
    /\ vPc = "bulk"
    /\ \E batch \in batches :
         LET m == MergeBatch(reviews, reviewIds, batch, vMaxReviews, 0) IN
           /\ reviews' = m.reviews
           /\ reviewIds' = m.ids
           /\ vPc' = IF PaginateWanted(Len(m.reviews), vMaxReviews) THEN "loop" ELSE "return"
    /\ UNCHANGED <<vMaxReviews, clickCount, vAdded, vResult, vProductive, vFailedAt>>

RevBulkRead == RevBulkReadFrom(BulkBatches)

\* top of the while loop with the button visible: go on to click it
RevButtonVisible ==
    /\ vPc = "loop"
    /\ PaginateGuard(Len(reviews), vMaxReviews, clickCount)
    /\ vPc' = "click"
    /\ UNCHANGED <<vMaxReviews, reviews, reviewIds, clickCount, vAdded, vResult,
                   vProductive, vFailedAt>>

\* top of the while loop: the button is not visible (or isVisible rejected,
\* which `.catch(() => false)` turns into false): break
RevButtonHidden ==
    /\ vPc = "loop"
    /\ PaginateGuard(Len(reviews), vMaxReviews, clickCount)
    /\ vPc' = "return"
    /\ UNCHANGED <<vMaxReviews, reviews, reviewIds, clickCount, vAdded, vResult,
                   vProductive, vFailedAt>>

\* the while condition is false: leave the loop
RevLoopExit ==
    /\ vPc = "loop"
    /\ ~PaginateGuard(Len(reviews), vMaxReviews, clickCount)
    /\ vPc' = "return"
    /\ UNCHANGED <<vMaxReviews, reviews, reviewIds, clickCount, vAdded, vResult,
                   vProductive, vFailedAt>>

\* loadMoreButton.click() resolves; clickCount++; waitForTimeout(1000)
RevClick ==
    /\ vPc = "click"
    /\ clickCount' = clickCount + 1
    /\ vPc' = "scrape"
    /\ UNCHANGED <<vMaxReviews, reviews, reviewIds, vAdded, vResult, vProductive,
                   vFailedAt>>

\* extractReviewsFromDOM returns `batch`, one of `batches`; add the new
\* reviews; break when addedCount is 0, else back to the top of the loop
RevScrapeFrom(batches) ==
    /\ vPc = "scrape"
    /\ \E batch \in batches :
         LET m == MergeBatch(reviews, reviewIds, batch, vMaxReviews, 0) IN
           /\ reviews' = m.reviews
           /\ reviewIds' = m.ids
           /\ vAdded' = m.added
           /\ vProductive' = IF Range(batch) \subseteq reviewIds
                               THEN vProductive ELSE vProductive + 1
           /\ vPc' = IF FeedExhausted(m.added) THEN "return" ELSE "loop"
    /\ UNCHANGED <<vMaxReviews, clickCount, vResult, vFailedAt>>

RevScrape == RevScrapeFrom(DomBatches)

\* a long feed: the document renders the first n reviews of the feed, in
\* feed order, and every scrape returns all that is rendered
Rendered(n) == [k \in 1..n |-> k]

\* the bulk read holds up to MaxBatch reviews of the feed
RevBulkReadRendered == RevBulkReadFrom({Rendered(n) : n \in 0..MaxBatch})

\* one click makes the document render up to MaxBatch more reviews
RevScrapeRendered ==
    RevScrapeFrom({Rendered(n) : n \in 0..Min(MaxRendered, Len(reviews) + MaxBatch)})

\* `return reviews.slice(0, maxReviews)` at the end of the try block, line 196
RevReturn ==
    /\ vPc = "return"
    /\ vResult' = Slice(reviews, vMaxReviews)
    /\ vPc' = "done"
    /\ UNCHANGED <<vMaxReviews, reviews, reviewIds, clickCount, vAdded, vProductive,
                   vFailedAt>>

\* the catch block: warn, then `return reviews.slice(0, maxReviews)`, line 204
RevCatchRethrow ==
    /\ vPc = "catch"
    /\ vPc' = "threw"
    /\ UNCHANGED <<vMaxReviews, reviews, reviewIds, clickCount, vAdded, vResult,
                   vProductive, vFailedAt>>
RevCatch ==
    /\ vPc = "catch"
    /\ vResult' = Slice(reviews, vMaxReviews)
    /\ vPc' = "done"
    /\ UNCHANGED <<vMaxReviews, reviews, reviewIds, clickCount, vAdded, vProductive,
                   vFailedAt>>

(***************************************************************************)
(* extractReviewsFromDOM: one pass over the review text links of the       *)
(* document.  A link is known by its trimmed text and by the element the   *)
(* climb of lines 57-64 ends at: null (NoContainer) or a container, known  *)
(* by whether it holds an official-response marker, by the author and date *)
(* read from it and by the number of svg[fill="currentColor"] it holds.    *)
(***************************************************************************)
NoContainer == [none |-> TRUE]

\* reviewContainer.querySelectorAll('svg[fill="currentColor"]').length: none,
\* five, or as many as the container holds
SvgCounts == {0, 5, MaxSvgs}

DomContainers == [official : BOOLEAN, svgs : SvgCounts, author : {"Ann"}, date : {"May"}]

\* a text is the sequence of its characters
Good == <<"g", "o", "o", "d">>
Bad == <<"b", "a", "d">>

\* link.textContent?.trim() || ''
DomTexts == {<<>>, Good, Bad}

\* `text.slice(0, 20)` in the pseudo id, reviews.ts line 87
IdPrefixLen == 20

\* the pseudo id `dom_${author}_${dateCreated}_${text.slice(0, 20)}`
DomId(author, date, text) == <<"dom", author, date, Slice(text, IdPrefixLen)>>

DomLinkElements == [text : DomTexts, container : DomContainers \cup {NoContainer}]

\* reviewContainer.querySelector('._1evjsdb'), reviews.ts lines 69-70
IsOfficialResponseNever(c) == FALSE
IsOfficialResponse(c) == c.official

\* the item pushed at lines 82-100; `link` is the position of the link the
\* item was built from (history)
DomReview(link, i) ==
    [id |-> DomId(link.container.author, link.container.date, link.text),
     text |-> link.text,
     rating |-> link.container.svgs,
     dateCreated |-> link.container.date,
     author |-> link.container.author,
     link |-> i]

\* the for loop of lines 49-103 from link i on
RECURSIVE DomScan(_, _, _, _)
DomScan(links, i, seenTexts, items) ==
    IF i > Len(links) THEN items
    ELSE LET link == links[i] IN
      IF link.text = <<>> \/ link.text \in seenTexts
        THEN DomScan(links, i + 1, seenTexts, items)
      ELSE IF link.container = NoContainer
        THEN DomScan(links, i + 1, seenTexts, items)
      ELSE IF IsOfficialResponse(link.container)
        THEN DomScan(links, i + 1, seenTexts, items)
      ELSE DomScan(links, i + 1, seenTexts \cup {link.text},
                   Append(items, DomReview(link, i)))

extractReviewsFromDOM(links) == DomScan(links, 1, {}, <<>>)

DomIdle ==
    /\ dPc = "idle"
    /\ dLinks = <<>>
    /\ dResult = <<>>

DomInit ==
    /\ dPc = "start"
    /\ dLinks \in SeqsUpTo(DomLinkElements, MaxDomLinks)
    /\ dResult = <<>>

\* the call extractReviewsFromDOM(page)
DomExtract ==
    /\ dPc = "start"
    /\ dResult' = extractReviewsFromDOM(dLinks)
    /\ dPc' = "done"
    /\ UNCHANGED dLinks

(***************************************************************************)
(* extractOrganization: the field normalizer.  A raw item is untyped JSON; *)
(* every JSON value is modelled as a tagged record so that the code's      *)
(* run-time tests (truthiness, Array.isArray, typeof, ?., ??) can be       *)
(* computed as JavaScript computes them.                                   *)
(***************************************************************************)
Absent == [t |-> "absent"]                \* undefined: the property is missing
JNull == [t |-> "null"]                   \* JSON null
Str(s) == [t |-> "str", v |-> s]
Num(n) == [t |-> "num", v |-> n]
List(q) == [t |-> "list", v |-> q]        \* an array of JSON values
Obj(r) == [t |-> "obj", v |-> r]          \* an object; r maps property names
Fmt(q) == [t |-> "fmt", v |-> q]          \* a non-empty string built from q
JTrue == [t |-> "bool", v |-> TRUE]

\* x == null || x === undefined
Nullish(x) == x.t \in {"absent", "null"}

\* ToBoolean(x)
Truthy(x) ==
    CASE x.t \in {"absent", "null"} -> FALSE
      [] x.t = "str" -> x.v # ""
      [] x.t = "num" -> x.v # 0
      [] x.t = "bool" -> x.v
      [] OTHER -> TRUE

\* x.f for a non-nullish x (reading a property of null/undefined throws)
Prop(x, f) == IF x.t = "obj" /\ f \in DOMAIN x.v THEN x.v[f] ELSE Absent

\* a ?? b
Coalesce(a, b) == IF Nullish(a) THEN b ELSE a

\* Array.isArray(x)
IsArray(x) == x.t = "list"

\* x === 'literal'
StrEq(x, lit) == x.t = "str" /\ x.v = lit

\* typeof x === 'number' / 'string'
IsNumber(x) == x.t = "num"
IsString(x) == x.t \in {"str", "fmt"}

\* `c.type === contactType` for an entry c of a contacts array; reading
\* c.type throws when c is null
RECURSIVE FindEntry(_, _)
FindEntry(cs, ty) ==
    IF cs = <<>> THEN [thrown |-> FALSE, found |-> FALSE, c |-> Absent]
    ELSE IF Nullish(Head(cs)) THEN [thrown |-> TRUE, found |-> FALSE, c |-> Absent]
    ELSE IF StrEq(Prop(Head(cs), "type"), ty)
      THEN [thrown |-> FALSE, found |-> TRUE, c |-> Head(cs)]
      ELSE FindEntry(Tail(cs), ty)

\* g.contacts?.find(c => c.type === contactType) for one group g
GroupFind(g, ty) ==
    IF Nullish(g) THEN [thrown |-> TRUE, found |-> FALSE, c |-> Absent]
    ELSE LET cs == Prop(g, "contacts") IN
      IF Nullish(cs) THEN [thrown |-> FALSE, found |-> FALSE, c |-> Absent]
      ELSE IF ~IsArray(cs) THEN [thrown |-> TRUE, found |-> FALSE, c |-> Absent]
      ELSE FindEntry(cs.v, ty)

\* contact_groups.find(g => g.contacts?.find(...)): the first group holding
\* an entry of the type; groups after it are not visited
RECURSIVE FindGroup(_, _)
FindGroup(gs, ty) ==
    IF gs = <<>> THEN [thrown |-> FALSE, found |-> FALSE, c |-> Absent]
    ELSE LET r == GroupFind(Head(gs), ty) IN
      IF r.thrown \/ r.found THEN r ELSE FindGroup(Tail(gs), ty)

\* findContact(item, contactType), utils.ts lines 84-92.  `thrown` says the
\* call raised a TypeError; otherwise `value` is what it returned.
findContactFirstGroupOnly(item, ty) ==
    IF Nullish(item.contact_groups) \/ item.contact_groups.v = <<>>
      THEN [thrown |-> FALSE, value |-> Absent]
      ELSE LET r == GroupFind(Head(item.contact_groups.v), ty) IN
        [thrown |-> r.thrown, value |-> IF r.found THEN Prop(r.c, "value") ELSE Absent]
findContact(item, ty) ==
    IF item = JNull THEN [thrown |-> TRUE, value |-> Absent]
    ELSE IF Nullish(item.contact_groups) THEN [thrown |-> FALSE, value |-> Absent]
    ELSE IF ~IsArray(item.contact_groups) THEN [thrown |-> TRUE, value |-> Absent]
    ELSE LET r == FindGroup(item.contact_groups.v, ty) IN
      IF r.thrown THEN [thrown |-> TRUE, value |-> Absent]
      ELSE IF ~r.found THEN [thrown |-> FALSE, value |-> Absent]
      ELSE [thrown |-> FALSE, value |-> Prop(r.c, "value")]

\* name and description, scrape-search.ts lines 144-157
NameGroup(item) ==
    IF Truthy(item.name_ex)
      THEN [name |-> Coalesce(Prop(item.name_ex, "primary"),
                              Coalesce(item.name, Str(""))),
            description |-> Prop(item.name_ex, "extension")]
      ELSE [name |-> Coalesce(item.name, Str("")), description |-> Absent]

\* the switch over component.type inside the for-of loop, lines 178-193;
\* a null component throws, which ends the loop with what was assigned
RECURSIVE AddrFold(_, _)
AddrFold(comps, acc) ==
    IF comps = <<>> \/ Nullish(Head(comps)) THEN acc
    ELSE LET c == Head(comps)
             ty == Prop(c, "type")
             f == IF StrEq(ty, "city") THEN "city"
                  ELSE IF StrEq(ty, "district") THEN "district"
                  ELSE IF StrEq(ty, "region") THEN "region"
                  ELSE IF StrEq(ty, "country") THEN "country"
                  ELSE "none"
         IN AddrFold(Tail(comps),
                     IF f = "none" THEN acc ELSE [acc EXCEPT ![f] = Prop(c, "name")])

\* the address hierarchy, scrape-search.ts lines 160-198.  A non-iterable
\* components value throws at the for-of; the catch keeps what was assigned.
AddressGroup(item) ==
    LET base == [address |-> Coalesce(item.address_name, Str("")),
                 addressComment |-> item.address_comment,
                 postcode |-> Absent, city |-> Absent, district |-> Absent,
                 region |-> Absent, country |-> Absent]
    IN IF ~Truthy(item.address) THEN base
       ELSE LET withPost == [base EXCEPT !.postcode = Prop(item.address, "postcode")]
                comps == Prop(item.address, "components")
            IN IF Truthy(comps) /\ IsArray(comps)
                 THEN AddrFold(comps.v, withPost)
                 ELSE withPost

\* rating and reviewCount, scrape-search.ts lines 218-230
RatingGroup(item) ==
    IF ~Truthy(item.reviews) THEN [rating |-> Absent, reviewCount |-> Absent]
    ELSE LET r == Prop(item.reviews, "rating")
             n == Prop(item.reviews, "general_rating_count")
         IN [rating |-> IF IsNumber(r) THEN r ELSE Absent,
             reviewCount |-> IF IsNumber(n) THEN n ELSE Absent]

\* item.rubrics.map(r => r.name).filter(n => typeof n === 'string')
RECURSIVE RubricNames(_)
RubricNames(rs) ==
    IF rs = <<>> THEN <<>>
    ELSE LET n == Prop(Head(rs), "name") IN
      IF IsString(n) THEN <<n>> \o RubricNames(Tail(rs)) ELSE RubricNames(Tail(rs))

\* rubrics, scrape-search.ts lines 233-240: starts as [], replaced only when
\* item.rubrics is an array; a null entry throws and leaves []
RubricsGroupUnchecked(item) ==
    IF ~IsArray(item.rubrics) THEN item.rubrics
    ELSE IF \E k \in 1..Len(item.rubrics.v) : Nullish(item.rubrics.v[k])
      THEN List(<<>>)
      ELSE List(RubricNames(item.rubrics.v))
RubricsGroup(item) ==
    IF ~IsArray(item.rubrics) THEN List(<<>>)
    ELSE IF \E k \in 1..Len(item.rubrics.v) : Nullish(item.rubrics.v[k])
      THEN List(<<>>)
      ELSE List(RubricNames(item.rubrics.v))

\* schedule, scrape-search.ts lines 201-215: a non-empty array of day
\* entries is formatted, a string is taken as is; a null entry or a
\* working_hours without join throws and leaves schedule undefined
ScheduleEntryThrows(h) ==
    \/ Nullish(h)
    \/ LET wh == Prop(h, "working_hours") IN ~Nullish(wh) /\ ~IsArray(wh)

ScheduleGroup(item) ==
    IF Nullish(item.schedule) THEN Absent
    ELSE LET hours == Prop(item.schedule, "working_hours") IN
      IF ~Truthy(hours) THEN Absent
      ELSE IF IsArray(hours) /\ Len(hours.v) > 0
        THEN IF \E k \in 1..Len(hours.v) : ScheduleEntryThrows(hours.v[k])
               THEN Absent
               ELSE Fmt(hours.v)
      ELSE IF hours.t = "str" THEN hours
      ELSE Absent

\* coordinates, scrape-search.ts lines 243-253
CoordinatesGroup(item) ==
    IF Nullish(item.point) THEN Absent
    ELSE IF Truthy(Prop(item.point, "lat")) /\ Truthy(Prop(item.point, "lon"))
      THEN Obj([lat |-> Prop(item.point, "lat"), lon |-> Prop(item.point, "lon")])
      ELSE Absent

\* .map(station => ({name: station.name, ...})).filter(s => s.name)
RECURSIVE StationNames(_)
StationNames(sts) ==
    IF sts = <<>> THEN <<>>
    ELSE LET n == Prop(Head(sts), "name") IN
      IF Truthy(n) THEN <<n>> \o StationNames(Tail(sts)) ELSE StationNames(Tail(sts))

\* the three nearest stations, scrape-search.ts lines 256-273; a null
\* station throws in the map and leaves nearestMetro undefined
MetroGroup(item) ==
    IF Nullish(item.links) THEN Absent
    ELSE LET sts == Prop(item.links, "nearest_stations") IN
      IF ~(Truthy(sts) /\ IsArray(sts)) THEN Absent
      ELSE LET top == SubSeq(sts.v, 1, Min(3, Len(sts.v))) IN
        IF \E k \in 1..Len(top) : Nullish(top[k]) THEN Absent
        ELSE IF StationNames(top) = <<>> THEN Absent
        ELSE List(StationNames(top))

\* attributes.map(a => a.name).filter(Boolean)
RECURSIVE AttrNames(_)
AttrNames(as) ==
    IF as = <<>> THEN <<>>
    ELSE LET n == Prop(Head(as), "name") IN
      IF Truthy(n) THEN <<n>> \o AttrNames(Tail(as)) ELSE AttrNames(Tail(as))

\* does the loop body throw on group g: g is null, or an attribute is null
AttrGroupThrows(g) ==
    \/ Nullish(g)
    \/ LET as == Prop(g, "attributes") IN
         IsArray(as) /\ \E k \in 1..Len(as.v) : Nullish(as.v[k])

\* stands for the literal group name compared at line 284
PaymentGroupName == "payment methods"

\* the for-of over attribute_groups, scrape-search.ts lines 283-289
RECURSIVE AttrFold(_, _, _)
AttrFold(gs, payments, feats) ==
    IF gs = <<>> THEN [payments |-> payments, feats |-> feats]
    ELSE LET g == Head(gs)
             as == Prop(g, "attributes")
         IN IF ~IsArray(as) THEN AttrFold(Tail(gs), payments, feats)
            ELSE IF StrEq(Prop(g, "name"), PaymentGroupName)
              THEN AttrFold(Tail(gs), payments \o AttrNames(as.v), feats)
              ELSE AttrFold(Tail(gs), payments, feats \o AttrNames(as.v))

\* payment methods and features, scrape-search.ts lines 276-296; the two
\* outputs are assigned after the loop, so a throw leaves both undefined
AttributesGroup(item) ==
    LET none == [paymentMethods |-> Absent, features |-> Absent] IN
    IF ~(Truthy(item.attribute_groups) /\ IsArray(item.attribute_groups)) THEN none
    ELSE IF \E k \in 1..Len(item.attribute_groups.v) :
              AttrGroupThrows(item.attribute_groups.v[k]) THEN none
    ELSE LET r == AttrFold(item.attribute_groups.v, <<>>, <<>>) IN
      [paymentMethods |-> IF Len(r.payments) > 0 THEN List(r.payments) ELSE Absent,
       features |-> IF Len(r.feats) > 0 THEN List(r.feats) ELSE Absent]

\* a || b
OrElse(a, b) == IF Truthy(a) THEN a ELSE b

\* parent organization, scrape-search.ts lines 299-310
OrgInfoGroup(item) ==
    IF ~Truthy(item.org)
      THEN [orgName |-> Absent, orgId |-> Absent, branchCount |-> Absent]
      ELSE [orgName |-> OrElse(Prop(item.org, "name"), Prop(item.org, "primary")),
            orgId |-> Prop(item.org, "id"),
            branchCount |-> IF IsNumber(Prop(item.org, "branch_count"))
                              THEN Prop(item.org, "branch_count") ELSE Absent]

\* .filter(c => c.type === 'photo_album').reduce((sum, c) => sum + (c.count || 0), 0)
RECURSIVE PhotoSum(_)
PhotoSum(cs) ==
    IF cs = <<>> THEN 0
    ELSE LET c == Head(cs)
             n == Prop(c, "count")
         IN (IF StrEq(Prop(c, "type"), "photo_album") /\ IsNumber(n) THEN n.v ELSE 0)
            + PhotoSum(Tail(cs))

\* photo info, scrape-search.ts lines 313-329: a null entry throws before
\* item.flags is looked at, so hasPhotos stays undefined as well
PhotoGroup(item) ==
    LET ec == item.external_content
        counts == Truthy(ec) /\ IsArray(ec)
        thrown == counts /\ \E k \in 1..Len(ec.v) : Nullish(ec.v[k])
    IN IF thrown THEN [photoCount |-> Absent, hasPhotos |-> Absent]
       ELSE [photoCount |-> IF counts /\ PhotoSum(ec.v) # 0
                              THEN Num(PhotoSum(ec.v)) ELSE Absent,
             hasPhotos |-> IF ~Nullish(item.flags) /\ Truthy(Prop(item.flags, "photos"))
                             THEN JTrue ELSE Absent]

\* timestamps, scrape-search.ts lines 332-341
DatesGroup(item) ==
    IF ~Truthy(item.dates) THEN [createdAt |-> Absent, updatedAt |-> Absent]
    ELSE [createdAt |-> Prop(item.dates, "created_at"),
          updatedAt |-> Prop(item.dates, "updated_at")]

\* the record literal of the return statement, scrape-search.ts lines
\* 343-373: name, address and rubrics always, `...(x && {x})` when x is
\* truthy, `...(x !== undefined && {x})` when x is not undefined
Restrict(r, keep) == [f \in keep |-> r[f]]

\* the fields written unconditionally, and those spread with `!== undefined`
AlwaysFields == {"name", "address", "rubrics"}
NotUndefinedFields == {"rating", "reviewCount", "branchCount", "photoCount", "hasPhotos"}

\* does the return literal carry field f, given the extracted values
KeepFieldAlways(all, f) == TRUE
KeepField(all, f) ==
    \/ f \in AlwaysFields
    \/ f \in NotUndefinedFields /\ all[f].t # "absent"
    \/ f \notin NotUndefinedFields /\ Truthy(all[f])

Assemble(item, phone, email, website) ==
    LET n == NameGroup(item)
        a == AddressGroup(item)
        rt == RatingGroup(item)
        at == AttributesGroup(item)
        og == OrgInfoGroup(item)
        ph == PhotoGroup(item)
        dt == DatesGroup(item)
        all == [name |-> n.name, description |-> n.description,
                address |-> a.address, addressComment |-> a.addressComment,
                postcode |-> a.postcode, city |-> a.city, district |-> a.district,
                region |-> a.region, country |-> a.country,
                timezone |-> item.timezone,
                phone |-> phone, email |-> email, website |-> website,
                schedule |-> ScheduleGroup(item),
                rating |-> rt.rating, reviewCount |-> rt.reviewCount,
                rubrics |-> RubricsGroup(item),
                type |-> item.type,
                coordinates |-> CoordinatesGroup(item),
                nearestMetro |-> MetroGroup(item),
                paymentMethods |-> at.paymentMethods, features |-> at.features,
                orgName |-> og.orgName, orgId |-> og.orgId,
                branchCount |-> og.branchCount,
                photoCount |-> ph.photoCount, hasPhotos |-> ph.hasPhotos,
                createdAt |-> dt.createdAt, updatedAt |-> dt.updatedAt]
    IN Restrict(all, {f \in DOMAIN all : KeepField(all, f)})

\* item?.f
OptProp(item, f) == IF item = JNull THEN Absent ELSE item[f]

\* what Normalize sees when the call lets an exception out
NormThrown == [thrown |-> TRUE]

\* the outer catch, scrape-search.ts lines 374-384: the minimal record
FallbackRethrow(item) == NormThrown
Fallback(item) ==
    [name |-> Coalesce(OptProp(item, "name"), Str("Unknown")),
     address |-> Coalesce(OptProp(item, "address_name"), Str("")),
     rubrics |-> List(<<>>)]

\* extractOrganization(item, logger), scrape-search.ts lines 136-385 (the
\* same body as src/scraper/organization.ts): the three findContact calls
\* stand directly in the outer try, every other group in a try of its own
extractOrganization(item) ==
    LET phone == findContact(item, "phone")
        email == findContact(item, "email")
        website == findContact(item, "website")
    IN IF phone.thrown \/ email.thrown \/ website.thrown
         THEN Fallback(item)
         ELSE Assemble(item, phone.value, email.value, website.value)

\* did the call end in the outer catch
UsedFallback(item) ==
    \E ty \in {"phone", "email", "website"} : findContact(item, ty).thrown

(***************************************************************************)
(* findContact on its own: items whose contact_groups is missing or a list *)
(* of at most MaxGroups groups of at most MaxContacts contacts each.       *)
(***************************************************************************)
\* the shape of a group: the types of its contacts in order, or NoContacts
\* for a group without a contacts property
NoContacts == <<"none">>

GroupShapes == SeqsUpTo({"phone", "email"}, MaxContacts) \cup {NoContacts}

\* the group of shape sh at position g; each contact's value tells where
\* the contact sits (10 * group + position in the group)
GroupOfShape(sh, g) ==
    IF sh = NoContacts THEN Obj([name |-> Str("empty")])
    ELSE Obj([contacts |->
                List([c \in 1..Len(sh) |-> Obj([type |-> Str(sh[c]),
                                                value |-> Num(10 * g + c)])])])

ContactItems ==
    {[contact_groups |-> Absent]}
        \cup {[contact_groups |-> List([g \in 1..Len(shs) |-> GroupOfShape(shs[g], g)])] :
                 shs \in SeqsUpTo(GroupShapes, MaxGroups)}

ContactTypes == {"phone", "email", "website"}

ContactIdle ==
    /\ fcPc = "idle"
    /\ fcItem = [contact_groups |-> Absent]
    /\ fcType = "phone"
    /\ fcResult = [thrown |-> FALSE, value |-> Absent]

ContactInit ==
    /\ fcPc = "start"
    /\ fcItem \in ContactItems
    /\ fcType \in ContactTypes
    /\ fcResult = [thrown |-> FALSE, value |-> Absent]

\* the call findContact(item, contactType)
ContactLookup ==
    /\ fcPc = "start"
    /\ fcResult' = findContact(fcItem, fcType)
    /\ fcPc' = "done"
    /\ UNCHANGED <<fcItem, fcType>>

(***************************************************************************)
(* extractDataFromPage: the version of part_000 is given the intercepted   *)
(* responses, the version of scraper/helpers.ts reads the embedded state   *)
(* only.  An item is known by where it came from and a number.             *)
(***************************************************************************)
ApiItem(k) == [from |-> "api", id |-> k]
StateItem(k) == [from |-> "state", id |-> k]

\* apiData.result?.items?.[0] of a response without items, and the data of
\* a profile entry without a data payload
NoItem == [from |-> "none", id |-> 0]

\* window.initialState as the page has it: evaluation fails, there is no
\* data.entity.profile, or the profile map has these entries in order
EvalFails == [kind |-> "evalFails", entries |-> <<>>]
NoProfile == [kind |-> "noProfile", entries |-> <<>>]
Profiles(es) == [kind |-> "profiles", entries |-> es]

EmbeddedStates(items) ==
    {EvalFails, NoProfile}
        \cup {Profiles(es) : es \in SeqsUpTo(items \cup {NoItem}, MaxProfiles)}

\* the result of extractDataFromPage: `item` is NoItem when it returns
\* null; `evaluated` says whether the page was asked for its state
ExtractionNull(evaluated) ==
    [isNull |-> TRUE, item |-> NoItem, source |-> "none", evaluated |-> evaluated]
ExtractionOf(item, source, evaluated) ==
    [isNull |-> FALSE, item |-> item, source |-> source, evaluated |-> evaluated]

\* the fallback to initialState, part_000 lines 127-143 and helpers.ts
\* lines 59-91: the data of profiles[0], null when there is none or when
\* page.evaluate throws
ExtractFromState(state) ==
    IF state.kind = "profiles" /\ state.entries # <<>> /\ state.entries[1] # NoItem
      THEN ExtractionOf(state.entries[1], "initialState", TRUE)
      ELSE ExtractionNull(TRUE)

\* extractDataFromPage, part_000 lines 111-145 (capturing) and helpers.ts
\* lines 55-92 (not capturing)
extractDataFromPageStateFirst(capturing, captured, state) ==
    IF ~ExtractFromState(state).isNull THEN ExtractFromState(state)
    ELSE IF capturing /\ Len(captured) > 0 /\ captured[1] # NoItem
      THEN ExtractionOf(captured[1], "api", TRUE)
      ELSE ExtractionNull(TRUE)
extractDataFromPage(capturing, captured, state) ==
    IF capturing /\ Len(captured) > 0 /\ captured[1] # NoItem
      THEN ExtractionOf(captured[1], "api", FALSE)
      ELSE ExtractFromState(state)

ApiItems == {ApiItem(1), ApiItem(2)}
StateItems == {StateItem(1), StateItem(2)}

ExtractIdle ==
    /\ xPc = "idle"
    /\ xCapturing = FALSE
    /\ xCaptured = <<>>
    /\ xState = NoProfile
    /\ xResult = ExtractionNull(FALSE)

ExtractInit ==
    /\ xPc = "start"
    /\ xCapturing \in BOOLEAN
    /\ xCaptured \in IF xCapturing THEN SeqsUpTo(ApiItems \cup {NoItem}, MaxCaptured)
                                   ELSE {<<>>}
    /\ xState \in EmbeddedStates(StateItems)
    /\ xResult = ExtractionNull(FALSE)

\* the call extractDataFromPage(page, [capturedResponses,] logger)
ExtractCall ==
    /\ xPc = "start"
    /\ xResult' = extractDataFromPage(xCapturing, xCaptured, xState)
    /\ xPc' = "done"
    /\ UNCHANGED <<xCapturing, xCaptured, xState>>


(***************************************************************************)
(* The response-capturing scraper of part_000: the per-target loop (lines  *)
(* 292-316) calls scrapeSingleOrganization (148-191) through withRetry     *)
(* while the page's response handler (226-238) runs whenever a             *)
(* /items/byid response arrives.  The handler is an async function: it     *)
(* awaits response.json() and pushes the result afterwards, so its two     *)
(* halves interleave with the steps of the loop at every await.  The byid  *)
(* response of the page of target t carries ApiItem(t).                    *)
(***************************************************************************)
CaptureIdle ==
    /\ cPc = "idle"
    /\ cTotal = 0
    /\ cMaxRetries = 0
    /\ cI = 0
    /\ cAttempt = 1
    /\ cDoc = 0
    /\ cCaptured = <<>>
    /\ cPending = {}
    /\ cEmitted = {}
    /\ cUsed = <<>>

\* the search page is loaded and firmUrls holds targets 1..cTotal
CaptureInit ==
    /\ cPc = "loop"
    /\ cTotal \in 0..MaxTargets
    /\ cMaxRetries \in 1..MaxOrchRetries
    /\ cI = 0
    /\ cAttempt = 1
    /\ cDoc = 0
    /\ cCaptured = <<>>
    /\ cPending = {}
    /\ cEmitted = {}
    /\ cUsed = <<>>

\* page.on('response', ...) fires for the byid request of the document the
\* page shows; the handler runs up to `await response.json()` (line 230)
CapResponse ==
    /\ cPc \in {"sleep", "extract", "goBack"}
    /\ cDoc # 0
    /\ cDoc \notin cEmitted
    /\ cEmitted' = cEmitted \cup {cDoc}
    /\ cPending' = cPending \cup {cDoc}
    /\ UNCHANGED <<cPc, cTotal, cMaxRetries, cI, cAttempt, cDoc, cCaptured, cUsed>>

\* response.json() resolves and the handler goes on:
\* capturedResponses.push(json), line 231
CapJsonResolves(d) ==
    /\ d \in cPending
    /\ cPending' = cPending \ {d}
    /\ cCaptured' = Append(cCaptured, ApiItem(d))
    /\ UNCHANGED <<cPc, cTotal, cMaxRetries, cI, cAttempt, cDoc, cEmitted, cUsed>>

\* response.json() rejects (the body is gone or is not JSON): the handler's
\* catch logs it, lines 234-236
CapJsonRejects(d) ==
    /\ d \in cPending
    /\ cPending' = cPending \ {d}
    /\ UNCHANGED <<cPc, cTotal, cMaxRetries, cI, cAttempt, cDoc, cCaptured, cEmitted, cUsed>>

\* the for loop, lines 292-304: the next target goes to withRetry, or the
\* loop ends
CapLoopTop ==
    /\ cPc = "loop"
    /\ IF cI < cTotal THEN cPc' = "call" ELSE cPc' = "done"
    /\ cAttempt' = 1
    /\ UNCHANGED <<cTotal, cMaxRetries, cI, cDoc, cCaptured, cPending, cEmitted, cUsed>>

\* withRetry invokes fn: scrapeSingleOrganization clears the buffer
\* (capturedResponses.length = 0) and issues page.goto, lines 156-159
CapCall ==
    /\ cPc = "call"
    /\ cCaptured' = <<>>
    /\ cPc' = "goto"
    /\ UNCHANGED <<cTotal, cMaxRetries, cI, cAttempt, cDoc, cPending, cEmitted, cUsed>>

\* page.goto resolves: the page shows the target's document
CapGoto ==
    /\ cPc = "goto"
    /\ cDoc' = cI + 1
    /\ cPc' = "sleep"
    /\ UNCHANGED <<cTotal, cMaxRetries, cI, cAttempt, cCaptured, cPending, cEmitted, cUsed>>

\* the attempt throws: withRetry's catch, lines 81-89, retries after the
\* backoff or returns null, and the loop counts the failure (line 314)
CapAttemptThrows ==
    IF cAttempt = cMaxRetries
      THEN cPc' = "loop" /\ cI' = cI + 1 /\ cAttempt' = 1
      ELSE cPc' = "call" /\ cI' = cI /\ cAttempt' = cAttempt + 1

\* page.goto rejects on its timeout
CapGotoFails ==
    /\ cPc = "goto"
    /\ CapAttemptThrows
    /\ UNCHANGED <<cTotal, cMaxRetries, cDoc, cCaptured, cPending, cEmitted, cUsed>>

\* sleep(options.delayMs) is over, line 162
CapSleep ==
    /\ cPc = "sleep"
    /\ cPc' = "extract"
    /\ UNCHANGED <<cTotal, cMaxRetries, cI, cAttempt, cDoc, cCaptured, cPending, cEmitted, cUsed>>

\* extractDataFromPage(page, capturedResponses, logger), lines 165-169; the
\* page's own state holds the target's item or no profile
CapExtract ==
    /\ cPc = "extract"
    /\ \E state \in {NoProfile, Profiles(<<StateItem(cDoc)>>)} :
         LET extraction == extractDataFromPage(TRUE, cCaptured, state) IN
           IF extraction.isNull
             THEN CapAttemptThrows /\ cUsed' = cUsed
             ELSE /\ cUsed' = Append(cUsed, [target |-> cI + 1, extraction |-> extraction])
                  /\ cPc' = "goBack"
                  /\ UNCHANGED <<cI, cAttempt>>
    /\ UNCHANGED <<cTotal, cMaxRetries, cDoc, cCaptured, cPending, cEmitted>>

\* page.goBack resolves, line 187: the search page is shown again
CapGoBack ==
    /\ cPc = "goBack"
    /\ cDoc' = 0
    /\ cPc' = "pause"
    /\ UNCHANGED <<cTotal, cMaxRetries, cI, cAttempt, cCaptured, cPending, cEmitted, cUsed>>

\* sleep(500) is over and the result is returned to the loop, lines 188-316
CapReturn ==
    /\ cPc = "pause"
    /\ cI' = cI + 1
    /\ cPc' = "loop"
    /\ UNCHANGED <<cTotal, cMaxRetries, cAttempt, cDoc, cCaptured, cPending, cEmitted, cUsed>>

(***************************************************************************)
(* ScraperRepository.readListFile (part_015 lines 52-73) on the parsed     *)
(* content of a list file.                                                 *)
(***************************************************************************)
\* what an entry may hold as orgId and as firmId
ListIdValues == {Absent, Str(""), Str("7"), Str("8")}

ListEntries == {Obj([orgId |-> a, firmId |-> b]) : a, b \in ListIdValues}

ListArrays == {List(q) : q \in SeqsUpTo(ListEntries, MaxListEntries)}

\* parsed contents: { meta?, data } with data an array or something else,
\* a bare array (raw list data), or a bare string
ListFiles ==
    {Obj([meta |-> m, data |-> d]) :
        m \in {Absent, Obj([query |-> Str("cafe")])},
        d \in ListArrays \cup {Absent, JNull, Str("x"), Obj([invalid |-> Str("format")])}}
      \cup ListArrays \cup {Str("x")}

\* data.map(org => org.orgId || org.firmId).filter(id => Boolean(id))
RECURSIVE MapFilterIdsOrgIdOnly(_)
MapFilterIdsOrgIdOnly(entries) ==
    IF entries = <<>> THEN <<>>
    ELSE LET id == Prop(Head(entries), "orgId") IN
      IF Truthy(id) THEN <<id>> \o MapFilterIdsOrgIdOnly(Tail(entries))
                    ELSE MapFilterIdsOrgIdOnly(Tail(entries))
RECURSIVE MapFilterIds(_)
MapFilterIds(entries) ==
    IF entries = <<>> THEN <<>>
    ELSE LET a == Prop(Head(entries), "orgId")
             id == IF Truthy(a) THEN a ELSE Prop(Head(entries), "firmId")
         IN IF Truthy(id) THEN <<id>> \o MapFilterIds(Tail(entries))
                          ELSE MapFilterIds(Tail(entries))

\* readListFile from `const data = parsed.data || parsed` on
readListFile(parsed) ==
    LET data == IF Truthy(Prop(parsed, "data")) THEN Prop(parsed, "data") ELSE parsed IN
      IF IsArray(data)
        THEN LET orgIds == MapFilterIds(data.v) IN
             [thrown |-> FALSE, orgIds |-> orgIds, totalResults |-> Len(orgIds),
              query |-> Prop(Prop(parsed, "meta"), "query")]
        ELSE [thrown |-> TRUE, message |-> "Invalid list file format"]

NoListData == [none |-> TRUE]

ListIdle ==
    /\ lPc = "idle"
    /\ lFile = JNull
    /\ lResult = NoListData

ListInit ==
    /\ lPc = "start"
    /\ lFile \in ListFiles
    /\ lResult = NoListData

\* the call readListFile(filePath) once the file has been read and parsed
ListRead ==
    /\ lPc = "start"
    /\ lResult' = readListFile(lFile)
    /\ lPc' = IF readListFile(lFile).thrown THEN "threw" ELSE "done"
    /\ UNCHANGED lFile

(***************************************************************************)
(* Raw items the normalizer is run on: a well-formed item with every group *)
(* present, and the items that differ from it in up to MaxDeviations       *)
(* top-level properties.                                                   *)
(***************************************************************************)
BaseItem ==
    [contact_groups |->
        List(<<Obj([contacts |-> List(<<Obj([type |-> Str("phone"), value |-> Str("+7 1")]),
                                        Obj([type |-> Str("website"), value |-> Str("w.ru")])>>)]),
               Obj([contacts |-> List(<<Obj([type |-> Str("email"), value |-> Str("a@b")]),
                                        Obj([type |-> Str("phone"), value |-> Str("+7 2")])>>)])>>),
     name |-> Str("Test Org"),
     name_ex |-> Obj([primary |-> Str("Test"), extension |-> Str("cafe")]),
     address_name |-> Str("Test Street, 1"),
     address_comment |-> Str("floor 2"),
     address |-> Obj([postcode |-> Str("101000"),
                      components |-> List(<<Obj([type |-> Str("city"), name |-> Str("Moscow")]),
                                            Obj([type |-> Str("district"), name |-> Str("Arbat")]),
                                            Obj([type |-> Str("region"), name |-> Str("MSK")]),
                                            Obj([type |-> Str("country"), name |-> Str("RU")])>>)]),
     schedule |-> Obj([working_hours |->
                        List(<<Obj([day |-> Str("Mon"),
                                    working_hours |-> List(<<Str("9-18")>>)])>>)]),
     reviews |-> Obj([rating |-> Num(4), general_rating_count |-> Num(100)]),
     rubrics |-> List(<<Obj([name |-> Str("Restaurant")]), Obj([name |-> Str("Bar")])>>),
     point |-> Obj([lat |-> Num(55), lon |-> Num(37)]),
     links |-> Obj([nearest_stations |-> List(<<Obj([name |-> Str("Arbatskaya")])>>)]),
     attribute_groups |->
        List(<<Obj([name |-> Str(PaymentGroupName),
                    attributes |-> List(<<Obj([name |-> Str("card")])>>)]),
               Obj([name |-> Str("comfort"),
                    attributes |-> List(<<Obj([name |-> Str("wifi")])>>)])>>),
     org |-> Obj([name |-> Str("Parent"), id |-> Str("77"), branch_count |-> Num(3)]),
     external_content |-> List(<<Obj([type |-> Str("photo_album"), count |-> Num(5)])>>),
     flags |-> Obj([photos |-> JTrue]),
     dates |-> Obj([created_at |-> Str("2020"), updated_at |-> Str("2021")]),
     timezone |-> Str("Europe/Moscow"),
     type |-> Str("branch")]

\* One deviation: property `fld` of the item, which feeds field group `g`,
\* gets the value `val`; `bad` says the value is malformed (of a shape the
\* group cannot parse) rather than merely missing or different.
Dev(g, fld, val, bad) == [g |-> g, fld |-> fld, val |-> val, bad |-> bad]

Deviations ==
    { Dev("contacts", "contact_groups", Num(5), TRUE),
      Dev("contacts", "contact_groups", List(<<JNull>>), TRUE),
      Dev("contacts", "contact_groups", List(<<Obj([contacts |-> Num(1)])>>), TRUE),
      Dev("contacts", "contact_groups", Absent, FALSE),
      Dev("name", "name_ex", Num(7), TRUE),
      Dev("name", "name_ex", Absent, FALSE),
      Dev("name", "name", Absent, FALSE),
      Dev("address", "address", Obj([postcode |-> Str("101000"), components |-> Num(5)]), TRUE),
      Dev("address", "address", Obj([postcode |-> Str("101000"),
                                     components |-> Obj([city |-> Str("Moscow")])]), TRUE),
      Dev("address", "address", Obj([postcode |-> Str("101000"),
                                     components |-> List(<<JNull>>)]), TRUE),
      Dev("address", "address",
          Obj([postcode |-> Str("101000"),
               components |-> List(<<Obj([type |-> Str("country"), name |-> Str("RU")]),
                                     Obj([type |-> Str("region"), name |-> Str("MSK")]),
                                     Obj([type |-> Str("district"), name |-> Str("Arbat")]),
                                     Obj([type |-> Str("city"), name |-> Str("Moscow")])>>)]),
          FALSE),
      Dev("address", "address",
          Obj([postcode |-> Str("101000"),
               components |-> List(<<Obj([type |-> Str("city"), name |-> Str("Moscow")]),
                                     Obj([type |-> Str("district"), name |-> Str("Arbat")]),
                                     Obj([type |-> Str("city"), name |-> Str("Khimki")]),
                                     Obj([type |-> Str("region"), name |-> Str("MSK")]),
                                     Obj([type |-> Str("country"), name |-> Str("RU")])>>)]),
          FALSE),
      Dev("address", "address", Absent, FALSE),
      Dev("address", "address_name", Absent, FALSE),
      Dev("schedule", "schedule", Obj([working_hours |-> List(<<JNull>>)]), TRUE),
      Dev("schedule", "schedule",
          Obj([working_hours |-> List(<<Obj([day |-> Str("Mon"),
                                             working_hours |-> Str("9-18")])>>)]), TRUE),
      Dev("schedule", "schedule", Obj([working_hours |-> Str("daily")]), FALSE),
      Dev("schedule", "schedule", Absent, FALSE),
      Dev("rating", "reviews", Str("many"), TRUE),
      Dev("rating", "reviews", Obj([rating |-> Str("4"), general_rating_count |-> JNull]), TRUE),
      Dev("rating", "reviews", Obj([rating |-> Num(0), general_rating_count |-> Num(0)]), FALSE),
      Dev("rating", "reviews", Absent, FALSE),
      Dev("rubrics", "rubrics", Str("Restaurant"), TRUE),
      Dev("rubrics", "rubrics", JNull, TRUE),
      Dev("rubrics", "rubrics", List(<<Obj([name |-> Str("Restaurant")]), JNull>>), TRUE),
      Dev("rubrics", "rubrics", List(<<Obj([name |-> Num(1)]), Obj([name |-> Str("Bar")])>>), TRUE),
      Dev("rubrics", "rubrics", Absent, FALSE),
      Dev("coordinates", "point", Str("55,37"), TRUE),
      Dev("coordinates", "point", Absent, FALSE),
      Dev("metro", "links", Obj([nearest_stations |-> List(<<JNull>>)]), TRUE),
      Dev("metro", "links", Obj([nearest_stations |-> Num(2)]), TRUE),
      Dev("metro", "links", Absent, FALSE),
      Dev("attributes", "attribute_groups", List(<<JNull>>), TRUE),
      Dev("attributes", "attribute_groups",
          List(<<Obj([name |-> Str("comfort"), attributes |-> List(<<JNull>>)])>>), TRUE),
      Dev("attributes", "attribute_groups", Num(1), TRUE),
      Dev("attributes", "attribute_groups", Absent, FALSE),
      Dev("orginfo", "org", Str("Parent"), TRUE),
      Dev("orginfo", "org", Absent, FALSE),
      Dev("photos", "external_content", List(<<JNull>>), TRUE),
      Dev("photos", "external_content", Num(3), TRUE),
      Dev("photos", "external_content", Absent, FALSE),
      Dev("dates", "dates", Str("2020"), TRUE),
      Dev("dates", "dates", Absent, FALSE) }

\* the output fields each field group assigns
GroupFields(g) ==
    CASE g = "contacts" -> {"phone", "email", "website"}
      [] g = "name" -> {"name", "description"}
      [] g = "address" -> {"address", "addressComment", "postcode", "city",
                           "district", "region", "country"}
      [] g = "schedule" -> {"schedule"}
      [] g = "rating" -> {"rating", "reviewCount"}
      [] g = "rubrics" -> {"rubrics"}
      [] g = "coordinates" -> {"coordinates"}
      [] g = "metro" -> {"nearestMetro"}
      [] g = "attributes" -> {"paymentMethods", "features"}
      [] g = "orginfo" -> {"orgName", "orgId", "branchCount"}
      [] g = "photos" -> {"photoCount", "hasPhotos"}
      [] g = "dates" -> {"createdAt", "updatedAt"}

\* the item that differs from BaseItem by the deviations in ds
RECURSIVE ApplyDevs(_, _)
ApplyDevs(item, ds) ==
    IF ds = {} THEN item
    ELSE LET d == CHOOSE x \in ds : TRUE IN
      ApplyDevs([item EXCEPT ![d.fld] = d.val], ds \ {d})

\* sets of at most n deviations, no property deviating twice
RECURSIVE DevSetsOf(_)
DevSetsOf(n) ==
    IF n = 0 THEN {{}}
    ELSE LET prev == DevSetsOf(n - 1) IN
      prev \cup UNION {{ds \cup {d} : d \in {x \in Deviations :
                                                \A y \in ds : y.fld # x.fld}} :
                        ds \in prev}

DevSets == DevSetsOf(MaxDeviations)

\* the two raw items of the documented scenarios; 45 stands for the rating
\* 4.5 (ratings are counted in tenths there)
MinimalItem == [f \in DOMAIN BaseItem |-> IF f = "name" THEN Str("Minimal") ELSE Absent]

FiveFieldItem ==
    [MinimalItem EXCEPT !.name = Str("Test Org"),
                        !.address_name = Str("Test Street, 1"),
                        !.rubrics = List(<<Obj([name |-> Str("Restaurant")])>>),
                        !.reviews = Obj([rating |-> Num(45),
                                         general_rating_count |-> Num(100)])]

\* raw items of an unexpected top-level shape: null
OddItems == {JNull}

\* the raw item after extractOrganization returned: the function assigns to
\* no property of item and calls only find, map, filter, slice, reduce on
\* its arrays
ItemAfterCallDrained(item) ==
    IF item = JNull THEN item ELSE [item EXCEPT !.rubrics = List(<<>>)]
ItemAfterCall(item) == item

\* what page.evaluate returns per listing link in list mode (part_010 lines
\* 171-179): the digits of the href and the trimmed link text, '' if none
ListingItems ==
    {[firmId |-> Str(id), name |-> Str(nm)] : id \in {"1", "2"}, nm \in {"", "Cafe"}}

\* the record built in list mode, part_010 lines 193-198
ListModeRecord(listing) ==
    [name |-> listing.name, address |-> Str(""), rubrics |-> List(<<>>),
     orgId |-> listing.firmId]

NoRecord == [none |-> TRUE]

NormIdle ==
    /\ nPc = "idle"
    /\ nSource = "none"
    /\ nDevs = {}
    /\ nItem = NoRecord
    /\ nRecord = NoRecord
    /\ nRecord2 = NoRecord

NormInit ==
    /\ nPc = "start"
    /\ nRecord = NoRecord
    /\ nRecord2 = NoRecord
    /\ \/ /\ nSource = "detail"
          /\ nDevs \in DevSets
          /\ nItem = ApplyDevs(BaseItem, nDevs)
       \/ /\ nSource = "detail"
          /\ nDevs = {}
          /\ nItem \in {MinimalItem, FiveFieldItem} \cup OddItems
       \/ /\ nSource = "listing"
          /\ nDevs = {}
          /\ nItem \in ListingItems

\* organization = extractOrganization(item, logger)
Normalize ==
    /\ nPc = "start"
    /\ nSource = "detail"
    /\ nRecord' = extractOrganization(nItem)
    /\ nItem' = ItemAfterCall(nItem)
    /\ nPc' = IF extractOrganization(nItem) = NormThrown THEN "threw" ELSE "done"
    /\ UNCHANGED <<nSource, nDevs, nRecord2>>

\* extractOrganization is called once more on the same item
NormalizeAgain ==
    /\ nPc = "done"
    /\ nSource = "detail"
    /\ nRecord2' = extractOrganization(nItem)
    /\ nItem' = ItemAfterCall(nItem)
    /\ nPc' = IF extractOrganization(nItem) = NormThrown THEN "threw" ELSE "done2"
    /\ UNCHANGED <<nSource, nDevs, nRecord>>

\* the list-mode loop body builds the record from the listing item
NormalizeListing ==
    /\ nPc = "start"
    /\ nSource = "listing"
    /\ nRecord' = ListModeRecord(nItem)
    /\ nPc' = "done"
    /\ UNCHANGED <<nSource, nDevs, nItem, nRecord2>>

(***************************************************************************)
(* scripts/scrape.ts (validateOptions, main) and scrapeSearchResults.      *)
(***************************************************************************)
Targets == 1..MaxTargets

Modes == {"list", "full", "full-with-reviews"}

\* the ScraperOptions objects tried: each of query, orgId and fromList is
\* set (truthy) or not; the mode is one of the three or an unknown name
OptionSpace ==
    [query : BOOLEAN, orgId : {0, 1}, fromList : BOOLEAN,
     scrapingMode : Modes \cup {"bogus"},
     maxRecords : 0..MaxRecordsBound, maxRetries : 0..MaxOrchRetries]

\* validateOptions, scripts/scrape.ts lines 32-58: TRUE when no check calls
\* process.exit(1)
validateOptionsModeOnly(o) == o.scrapingMode \in Modes
validateOptions(o) ==
    /\ ~(~o.query /\ o.orgId = 0 /\ ~o.fromList)
    /\ o.scrapingMode \in Modes
    /\ ~(o.scrapingMode = "list" /\ (o.orgId # 0 \/ o.fromList))
    /\ ~(o.fromList /\ o.scrapingMode = "list")

\* the raw item embedded in the detail page of target t: pages differ in
\* the organization name and id; page 2 has a contact_groups the normalizer
\* cannot read
PageNames == <<"Org 1", "Org 2", "Org 3", "Org 4">>
PageItem(t) ==
    LET nm == PageNames[IF t < Len(PageNames) THEN t ELSE Len(PageNames)]
        named == [BaseItem EXCEPT !.name = Str(nm), !.name_ex = Absent]
                   @@ [id |-> Str(nm)]
    IN IF t = 2 THEN [named EXCEPT !.contact_groups = List(<<JNull>>)] ELSE named

\* the review lists scrapeReviews may hand back to scrapeSingleOrganization
ReviewLists == {<<>>, <<1>>}

\* the pages and the record extractOrganization builds from each
PageItems == [t \in Targets |-> PageItem(t)]
PageRecords == [t \in Targets |-> extractOrganization(PageItem(t))]

\* what scrapeSingleOrganization(page, url, logger, options) returns when it
\* does not throw, part_014 lines 43-77: the record and the raw data entry
OrgResult(t, mode, rv) ==
    [kind |-> "value", target |-> t,
     organization |-> IF mode = "full-with-reviews" /\ Truthy(PageItems[t].id)
                        THEN [reviews |-> rv] @@ PageRecords[t] ELSE PageRecords[t],
     rawData |-> [source |-> "initialState", url |-> t, item |-> PageItems[t]]]

\* `return true` of the navigation and wait-for-results operations
TrueResult == [kind |-> "value", target |-> 0]

\* what one invocation of fn may do, by operation
FnOutcomes(op, t, mode) ==
    IF op = "org"
      THEN {Throw} \cup {OrgResult(t, mode, rv) :
                           rv \in IF mode = "full-with-reviews" THEN ReviewLists ELSE {<<>>}}
      ELSE {Throw, TrueResult}

\* organizations.push(result.organization); rawData.push(result.rawData)
PushResultOrgOnly(orgs, raws, result) ==
    [organizations |-> Append(orgs, result.organization), rawData |-> raws]
PushResultInFront(orgs, raws, result) ==
    [organizations |-> <<result.organization>> \o orgs,
     rawData |-> <<result.rawData>> \o raws]
PushResult(orgs, raws, result) ==
    [organizations |-> Append(orgs, result.organization),
     rawData |-> Append(raws, result.rawData)]

OrchIdle ==
    /\ oPc = "idle"
    /\ options = [query |-> FALSE, orgId |-> 0, fromList |-> FALSE,
                  scrapingMode |-> "full", maxRecords |-> 0, maxRetries |-> 0]
    /\ browser = "none"
    /\ closeCalls = 0
    /\ organizations = <<>>
    /\ rawData = <<>>
    /\ targets = <<>>
    /\ totalToScrape = 0
    /\ basicData = <<>>
    /\ oI = 0
    /\ successCount = 0
    /\ failureCount = 0
    /\ oExc = "none"
    /\ oLog = <<>>
    /\ exitCode = -1

\* the state when scrapeSearchResults(options) is called
OrchInit ==
    /\ oPc = "start"
    /\ options \in OptionSpace
    /\ browser = "none"
    /\ closeCalls = 0
    /\ organizations = <<>>
    /\ rawData = <<>>
    /\ targets = <<>>
    /\ totalToScrape = 0
    /\ basicData = <<>>
    /\ oI = 0
    /\ successCount = 0
    /\ failureCount = 0
    /\ oExc = "none"
    /\ oLog = <<>>
    /\ exitCode = -1

\* the state when main() has built the options, before validateOptions
CliInit ==
    /\ oPc = "validate"
    /\ options \in OptionSpace
    /\ browser = "none"
    /\ closeCalls = 0
    /\ organizations = <<>>
    /\ rawData = <<>>
    /\ targets = <<>>
    /\ totalToScrape = 0
    /\ basicData = <<>>
    /\ oI = 0
    /\ successCount = 0
    /\ failureCount = 0
    /\ oExc = "none"
    /\ oLog = <<>>
    /\ exitCode = -1

oOutputs == <<organizations, rawData, successCount, failureCount, oLog>>
oInputs == <<targets, totalToScrape, basicData>>
retryIdleVars == <<rPc, rOp, rMaxRetries, rAttempt, rCalls, rFails, rSleeps, rResult>>

\* main: validateOptions(options), scripts/scrape.ts line 138
CliValidate ==
    /\ oPc = "validate"
    /\ IF validateOptions(options)
         THEN oPc' = "start" /\ exitCode' = exitCode
         ELSE oPc' = "exit1" /\ exitCode' = 1
    /\ UNCHANGED <<options, browser, closeCalls, oI, oExc, oOutputs, oInputs, retryVars>>

\* createBrowserSession resolves, part_010 line 19
OrchOpenBrowser ==
    /\ oPc = "start"
    /\ browser' = "open"
    /\ oPc' = "dispatch"
    /\ UNCHANGED <<options, closeCalls, oI, oExc, exitCode, oOutputs, oInputs, retryVars>>

\* createBrowserSession rejects: nothing was acquired, the error propagates
OrchOpenFails ==
    /\ oPc = "start"
    /\ oExc' = "createBrowser"
    /\ oPc' = "threw"
    /\ UNCHANGED <<options, browser, closeCalls, oI, exitCode, oOutputs, oInputs, retryVars>>

\* the three `if`s choosing the acquisition path, lines 27, 71 and 97; the
\* missing-query branch closes the browser and returns (through finally)
OrchDispatch ==
    /\ oPc = "dispatch"
    /\ IF options.fromList
         THEN /\ oPc' = "readList"
              /\ UNCHANGED <<retryIdleVars, closeCalls, browser>>
         ELSE IF options.orgId # 0
           THEN /\ oPc' = "single"
                /\ RetryBegin("org", options.maxRetries)
                /\ UNCHANGED <<closeCalls, browser>>
           ELSE IF ~options.query
             THEN /\ oPc' = "finally"
                  /\ closeCalls' = closeCalls + 1
                  /\ browser' = "closed"
                  /\ UNCHANGED retryIdleVars
             ELSE /\ oPc' = "nav"
                  /\ RetryBegin("navigate", options.maxRetries)
                  /\ UNCHANGED <<closeCalls, browser>>
    /\ UNCHANGED <<options, oI, oExc, exitCode, oOutputs, oInputs, rPlan>>

\* readListFile resolves with ids; orgIds = listData.orgIds.slice(0, maxRecords)
OrchReadList ==
    /\ oPc = "readList"
    /\ \E ids \in SeqsUpTo(Targets, MaxLinks) :
         /\ targets' = Slice(ids, options.maxRecords)
         /\ totalToScrape' = Len(Slice(ids, options.maxRecords))
    /\ oI' = 0
    /\ oPc' = "fromListLoop"
    /\ UNCHANGED <<options, browser, closeCalls, basicData, oExc, exitCode, oOutputs, retryVars>>

\* an awaited call outside withRetry rejects inside the try block: readListFile
\* (line 30), page.$$eval (line 149) or page.evaluate (line 163)
OrchBodyThrows(at) ==
    /\ oPc = at
    /\ oExc' = at
    /\ oPc' = "finally"
    /\ UNCHANGED <<options, browser, closeCalls, oI, exitCode, oOutputs, oInputs, retryVars>>

\* `if (!orgId) continue` (line 40), `if (!url) continue` (line 209): an
\* identifier or href is a string, falsy when empty.  Targets are numbered
\* from 1; 0 stands for the empty string, which neither readListFile's
\* filter(Boolean) nor the href of a matched anchor can deliver.
FalsyTarget(t) == t = 0

\* top of a per-target loop (from-list line 38, full line 207): hand target
\* i to withRetry, or leave the loop; after the from-list loop the browser
\* is closed before the return (line 66)
OrchLoopTop(loop, wait) ==
    /\ oPc = loop
    /\ IF oI < totalToScrape
         THEN IF FalsyTarget(targets[oI + 1])
                THEN /\ oI' = oI + 1
                     /\ oPc' = loop
                     /\ UNCHANGED <<retryIdleVars, closeCalls, browser>>
                ELSE /\ oPc' = wait
                     /\ oI' = oI
                     /\ RetryBegin("org", options.maxRetries)
                     /\ UNCHANGED <<closeCalls, browser>>
         ELSE /\ oPc' = "finally"
              /\ oI' = oI
              /\ UNCHANGED retryIdleVars
              /\ IF loop = "fromListLoop"
                   THEN closeCalls' = closeCalls + 1 /\ browser' = "closed"
                   ELSE UNCHANGED <<closeCalls, browser>>
    /\ UNCHANGED <<options, oExc, exitCode, oOutputs, oInputs, rPlan>>

\* the target the pending withRetry call works on
CurrentTarget == IF oPc = "single" THEN options.orgId ELSE targets[oI + 1]

\* fn is invoked once more inside withRetry
OrchFnInvoke ==
    /\ oPc \in {"single", "fromListWait", "fullWait", "nav", "results"}
    /\ \E o \in FnOutcomes(rOp, IF rOp = "org" THEN CurrentTarget ELSE 0,
                           options.scrapingMode) : RetryInvoke(o)
    /\ UNCHANGED <<rPlan, orchVars>>

\* withRetry has settled and its frame is gone
RetryLeave ==
    /\ rPc' = "idle"
    /\ rOp' = "generic"
    /\ rMaxRetries' = 0
    /\ rAttempt' = 1
    /\ rCalls' = 0
    /\ rFails' = 0
    /\ rSleeps' = <<>>
    /\ rResult' = Null

\* `await withRetry(...)` rejects: the exception leaves the try block for
\* the finally block
OrchAwaitRejects ==
    /\ oExc' = IF rOp = "org" THEN "target" ELSE rOp
    /\ oPc' = "finally"
    /\ RetryLeave
    /\ UNCHANGED <<options, browser, closeCalls, oI, exitCode, oOutputs, oInputs, rPlan>>

\* successCount++ when result is truthy, failureCount++ when it is null
\* (lines 58 and 61, 227 and 229)
CountResultSuccessOnly(ok, succ, fail) ==
    [successCount |-> IF ok THEN succ + 1 ELSE succ, failureCount |-> fail]
CountResult(ok, succ, fail) ==
    [successCount |-> IF ok THEN succ + 1 ELSE succ,
     failureCount |-> IF ok THEN fail ELSE fail + 1]

\* withRetry settled inside a per-target loop: `if (result)` push and count
\* the success, else count the failure; then i++
OrchLoopResult(loop, wait) ==
    /\ oPc = wait
    /\ rPc \in {"done", "threw"}
    /\ IF rPc = "threw" THEN OrchAwaitRejects ELSE
         /\ IF rResult.kind = "value"
              THEN LET p == PushResult(organizations, rawData, rResult) IN
                   /\ organizations' = p.organizations
                   /\ rawData' = p.rawData
              ELSE UNCHANGED <<organizations, rawData>>
         /\ LET c == CountResult(rResult.kind = "value", successCount, failureCount) IN
              /\ successCount' = c.successCount
              /\ failureCount' = c.failureCount
         /\ oLog' = Append(oLog, [target |-> targets[oI + 1], calls |-> rCalls,
                                  ok |-> rResult.kind = "value"])
         /\ oI' = oI + 1
         /\ oPc' = loop
         /\ RetryLeave
         /\ UNCHANGED <<options, browser, closeCalls, oExc, exitCode, oInputs, rPlan>>

\* single organization by id, lines 82-93: push or log, close, return
OrchSingleResult ==
    /\ oPc = "single"
    /\ rPc \in {"done", "threw"}
    /\ IF rPc = "threw" THEN OrchAwaitRejects ELSE
         /\ IF rResult.kind = "value"
              THEN LET p == PushResult(organizations, rawData, rResult) IN
                   /\ organizations' = p.organizations
                   /\ rawData' = p.rawData
              ELSE UNCHANGED <<organizations, rawData>>
         /\ closeCalls' = closeCalls + 1
         /\ browser' = "closed"
         /\ oPc' = "finally"
         /\ RetryLeave
         /\ UNCHANGED <<options, oI, oExc, exitCode, successCount, failureCount, oLog,
                        oInputs, rPlan>>

\* search page navigation settled, lines 121-140: on null close and return,
\* else start waiting for the result links
OrchNavResult ==
    /\ oPc = "nav"
    /\ rPc \in {"done", "threw"}
    /\ IF rPc = "threw" THEN OrchAwaitRejects ELSE
         /\ IF rResult.kind = "value"
              THEN /\ oPc' = "results"
                   /\ RetryBegin("results", options.maxRetries)
                   /\ UNCHANGED <<closeCalls, browser>>
              ELSE /\ oPc' = "finally"
                   /\ closeCalls' = closeCalls + 1
                   /\ browser' = "closed"
                   /\ RetryLeave
         /\ UNCHANGED <<options, oI, oExc, exitCode, oOutputs, oInputs, rPlan>>

\* waiting for the result links settled, lines 142-146
OrchResultsResult ==
    /\ oPc = "results"
    /\ rPc \in {"done", "threw"}
    /\ IF rPc = "threw" THEN OrchAwaitRejects ELSE
         /\ IF rResult.kind = "value"
              THEN /\ oPc' = "urls"
                   /\ UNCHANGED <<closeCalls, browser>>
              ELSE /\ oPc' = "finally"
                   /\ closeCalls' = closeCalls + 1
                   /\ browser' = "closed"
         /\ RetryLeave
         /\ UNCHANGED <<options, oI, oExc, exitCode, oOutputs, oInputs, rPlan>>

\* links.slice(0, 50), line 150
MaxResultLinks == 50

\* the anchors matching a[href*="/moscow/firm/"] on the search page: any
\* short list, or a page that shows more than 50 of them
LongResultPage == [k \in 1..(MaxResultLinks + 1) |-> ((k - 1) % MaxTargets) + 1]
ResultLinkLists == SeqsUpTo(Targets, MaxLinks) \cup {LongResultPage}

FirstResultLinksAll(links) == links
FirstResultLinks(links) == Slice(links, MaxResultLinks)

\* page.$$eval resolves with the hrefs of the first 50 links, lines 149-160;
\* totalToScrape = Math.min(firmUrls.length, maxRecords)
OrchFirmUrlsAlwaysFull ==
    /\ oPc = "urls"
    /\ \E links \in ResultLinkLists :
         LET urls == FirstResultLinks(links) IN
         /\ targets' = urls
         /\ totalToScrape' = Min(Len(urls), options.maxRecords)
    /\ oI' = 0
    /\ oPc' = "fullLoop"
    /\ UNCHANGED <<options, browser, closeCalls, basicData, oExc, exitCode, oOutputs, retryVars>>
OrchFirmUrlsFrom(pages) ==
    /\ oPc = "urls"
    /\ \E links \in pages :
         LET urls == FirstResultLinks(links) IN
         /\ targets' = urls
         /\ totalToScrape' = Min(Len(urls), options.maxRecords)
    /\ oI' = 0
    /\ oPc' = IF options.scrapingMode = "list" THEN "listEval" ELSE "fullLoop"
    /\ UNCHANGED <<options, browser, closeCalls, basicData, oExc, exitCode, oOutputs, retryVars>>

OrchFirmUrls == OrchFirmUrlsFrom(ResultLinkLists)

\* search pages whose links all differ
DistinctLinkLists == {[k \in 1..n |-> k] : n \in 0..MaxTargets}
OrchFirmUrlsDistinct == OrchFirmUrlsFrom(DistinctLinkLists)

\* list mode, lines 163-184: page.evaluate returns one entry per link among
\* the first totalToScrape whose href holds a numeric firm id
OrchListEval ==
    /\ oPc = "listEval"
    /\ \E data \in SeqsUpTo(ListingItems, MaxLinks) :
         /\ Len(data) <= totalToScrape
         /\ basicData' = data
    /\ oI' = 0
    /\ oPc' = "listLoop"
    /\ UNCHANGED <<options, browser, closeCalls, targets, totalToScrape, oExc, exitCode,
                   oOutputs, retryVars>>

\* the list-mode loop, lines 186-204: one record and one raw item per entry
OrchListLoop ==
    /\ oPc = "listLoop"
    /\ IF oI < Min(Len(basicData), totalToScrape)
         THEN /\ organizations' = Append(organizations, ListModeRecord(basicData[oI + 1]))
              /\ rawData' = Append(rawData, basicData[oI + 1])
              /\ successCount' = successCount + 1
              /\ oI' = oI + 1
              /\ oPc' = "listLoop"
         ELSE /\ oPc' = "finally"
              /\ UNCHANGED <<organizations, rawData, successCount, oI>>
    /\ UNCHANGED <<options, browser, closeCalls, failureCount, oLog, oExc, exitCode,
                   oInputs, retryVars>>

\* the finally block, lines 235-237: closeBrowser; then the pending return
\* or the pending exception takes effect
OrchFinallySkipsClose ==
    /\ oPc = "finally"
    /\ oPc' = IF oExc = "none" THEN "returned" ELSE "threw"
    /\ UNCHANGED <<options, browser, closeCalls, oI, oExc, exitCode, oOutputs, oInputs, retryVars>>
OrchFinally ==
    /\ oPc = "finally"
    /\ closeCalls' = closeCalls + 1
    /\ browser' = "closed"
    /\ oPc' = IF oExc = "none" THEN "returned" ELSE "threw"
    /\ UNCHANGED <<options, oI, oExc, exitCode, oOutputs, oInputs, retryVars>>

\* withRetry's own steps while the orchestrator waits for it
OrchRetryCatchFinal == RetryCatchFinal /\ UNCHANGED <<rPlan, orchVars>>
OrchRetryCatchBackoff == RetryCatchBackoff /\ UNCHANGED <<rPlan, orchVars>>
OrchRetryFallThrough == RetryFallThrough /\ UNCHANGED <<rPlan, orchVars>>

(***************************************************************************)
(* scrapeSingleOrganization (part_014), step by step, as the fn that the   *)
(* full loop of scrapeSearchResults passes to withRetry.                   *)
(***************************************************************************)
\* the raw items the page of target t may embed: with or without an id
ItemsOfTarget(t) == {PageItems[t], [PageItems[t] EXCEPT !.id = Absent]}

PageLocalsIdle ==
    /\ sPc = "idle"
    /\ sState = NoProfile
    /\ sExtraction = ExtractionNull(FALSE)
    /\ sOrg = NoRecord
    /\ sReviewLog = <<>>
    /\ sNulls = 0

PageIdle ==
    /\ PageLocalsIdle
    /\ sDelayMs = 0
    /\ sWaited = -1

\* the values of --delay tried
DelayChoices == {0, 1500}

UnitIdle == ContactIdle /\ ExtractIdle /\ PageIdle /\ DomIdle /\ ListIdle /\ CaptureIdle

\* the state after page.$$eval returned the result links of a search
\* (part_010 lines 149-158), or, in list mode, before page.evaluate; the
\* links are distinct here and numbered in page order
PageRunInit ==
    /\ options \in {o \in OptionSpace : o.query /\ o.orgId = 0 /\ ~o.fromList
                                          /\ o.scrapingMode \in Modes}
    /\ oPc = IF options.scrapingMode = "list" THEN "listEval" ELSE "fullLoop"
    /\ browser = "open"
    /\ closeCalls = 0
    /\ organizations = <<>>
    /\ rawData = <<>>
    /\ \E n \in 0..Min(MaxLinks, MaxTargets) : targets = [k \in 1..n |-> k]
    /\ totalToScrape = Min(Len(targets), options.maxRecords)
    /\ basicData = <<>>
    /\ oI = 0
    /\ successCount = 0
    /\ failureCount = 0
    /\ oExc = "none"
    /\ oLog = <<>>
    /\ exitCode = -1
    /\ sDelayMs \in DelayChoices
    /\ sWaited = -1

\* scrapeSingleOrganization has settled and its locals are gone
PageLeave ==
    /\ sPc' = "idle"
    /\ sState' = NoProfile
    /\ sExtraction' = ExtractionNull(FALSE)
    /\ sOrg' = NoRecord

\* `return await fn()`: withRetry calls scrapeSingleOrganization
PageBeginUnawaited ==
    /\ oPc = "fullWait"
    /\ sPc = "idle"
    /\ sPc' = "goto"
    /\ sNulls' = IF rCalls = 0 THEN 0 ELSE sNulls
    /\ UNCHANGED <<sState, sExtraction, sOrg, sReviewLog, clockVars, retryVars, orchVars>>
PageBegin ==
    /\ oPc = "fullWait"
    /\ rPc = "loop"
    /\ RetryLoopGuard(rAttempt, rMaxRetries)
    /\ sPc = "idle"
    /\ sPc' = "goto"
    /\ sNulls' = IF rCalls = 0 THEN 0 ELSE sNulls
    /\ UNCHANGED <<sState, sExtraction, sOrg, sReviewLog, clockVars, retryVars, orchVars>>

\* page.goto resolves (part_014 line 20)
PageGotoSkipsWait ==
    /\ sPc = "goto"
    /\ sPc' = "extract"
    /\ sWaited' = 0
    /\ UNCHANGED <<sState, sExtraction, sOrg, sReviewLog, sNulls, sDelayMs, retryVars, orchVars>>
PageGoto ==
    /\ sPc = "goto"
    /\ sPc' = "wait"
    /\ sWaited' = 0
    /\ UNCHANGED <<sState, sExtraction, sOrg, sReviewLog, sNulls, sDelayMs, retryVars, orchVars>>

\* page.goto or page.waitForFunction rejects (timeout, network): fn throws
PageStepFails(step) ==
    /\ sPc = step
    /\ RetryInvoke(Throw)
    /\ PageLeave
    /\ sWaited' = IF step = "goto" THEN 0 ELSE sWaited
    /\ UNCHANGED <<sReviewLog, sNulls, sDelayMs, rPlan, orchVars>>

\* page.waitForFunction resolves (line 27)
PageWait ==
    /\ sPc = "wait"
    /\ sPc' = "extract"
    /\ UNCHANGED <<sState, sExtraction, sOrg, sReviewLog, sNulls, clockVars, retryVars, orchVars>>

\* extraction = await extractDataFromPage(page, logger), line 35: the page
\* is asked for the state it embeds at this moment
PageExtract ==
    /\ sPc = "extract"
    /\ \E state \in EmbeddedStates(ItemsOfTarget(CurrentTarget)) :
         /\ sState' = state
         /\ sExtraction' = extractDataFromPage(FALSE, <<>>, state)
    /\ sPc' = "check"
    /\ UNCHANGED <<sOrg, sReviewLog, sNulls, clockVars, retryVars, orchVars>>

\* `options.scrapingMode === 'full-with-reviews' && item.id`, line 66
ReviewsWantedAnyMode(mode, item) == Truthy(item.id)
ReviewsWanted(mode, item) == mode = "full-with-reviews" /\ Truthy(item.id)

\* lines 39-72: `if (!extraction) throw new Error(...)`; else build the
\* record and go on to the reviews when the mode and item.id ask for them
PageCheckReturnsNull ==
    /\ sPc = "check"
    /\ IF sExtraction.isNull
         THEN /\ RetryInvoke(Null)
              /\ PageLeave
              /\ sNulls' = sNulls + 1
         ELSE /\ sOrg' = extractOrganization(sExtraction.item)
              /\ sPc' = IF ReviewsWanted(options.scrapingMode, sExtraction.item)
                          THEN "reviews" ELSE "return"
              /\ UNCHANGED <<sState, sExtraction, sNulls, retryIdleVars>>
    /\ UNCHANGED <<sReviewLog, clockVars, rPlan, orchVars>>
PageCheck ==
    /\ sPc = "check"
    /\ IF sExtraction.isNull
         THEN /\ RetryInvoke(Throw)
              /\ PageLeave
              /\ sNulls' = sNulls + 1
         ELSE /\ sOrg' = extractOrganization(sExtraction.item)
              /\ sPc' = IF ReviewsWanted(options.scrapingMode, sExtraction.item)
                          THEN "reviews" ELSE "return"
              /\ UNCHANGED <<sState, sExtraction, sNulls, retryIdleVars>>
    /\ UNCHANGED <<sReviewLog, clockVars, rPlan, orchVars>>

\* reviews = await scrapeReviews(...); organization.reviews = reviews.
\* scrapeReviews issues a page.goto of its own and may fail right there
PageReviews ==
    /\ sPc = "reviews"
    /\ \E rv \in ReviewLists : sOrg' = [reviews |-> rv] @@ sOrg
    /\ sReviewLog' = Append(sReviewLog, CurrentTarget)
    /\ sPc' = "return"
    /\ sWaited' = 0
    /\ UNCHANGED <<sState, sExtraction, sNulls, sDelayMs, retryVars, orchVars>>

\* options.maxReviewsPerOrg in the runs where scrapeReviews is followed
\* step by step
ReviewsPerOrg == 1

\* line 68, the call: reviews = await scrapeReviews(page, item.id,
\* options.maxReviewsPerOrg, logger); the page is about to leave the detail
\* document, whose embedded state is not looked at again
PageReviewsCall ==
    /\ sPc = "reviews"
    /\ RevBegin(ReviewsPerOrg)
    /\ sReviewLog' = Append(sReviewLog, CurrentTarget)
    /\ sPc' = "inReviews"
    /\ sState' = NoProfile
    /\ UNCHANGED <<sExtraction, sOrg, sNulls, clockVars, retryVars, orchVars>>

\* line 68, the await settles: with the list returned, organization.reviews
\* is set (line 71); were scrapeReviews to throw, so would this attempt.
\* scrapeReviews' locals are gone; vFailedAt is kept as history.
PageReviewsSettled ==
    /\ sPc = "inReviews"
    /\ vPc \in {"done", "threw"}
    /\ IF vPc = "threw"
         THEN /\ RetryInvoke(Throw)
              /\ PageLeave
         ELSE /\ sOrg' = [reviews |-> vResult] @@ sOrg
              /\ sPc' = "return"
              /\ UNCHANGED <<sState, sExtraction, retryIdleVars>>
    /\ vPc' = "idle"
    /\ reviews' = <<>>
    /\ reviewIds' = {}
    /\ clickCount' = 0
    /\ vAdded' = -1
    /\ vResult' = <<>>
    /\ vProductive' = 0
    /\ UNCHANGED <<vMaxReviews, vFailedAt, sReviewLog, sNulls, clockVars, rPlan, orchVars>>

\* the attempt is over: what is remembered of the last scrapeReviews call
\* (where it failed) is dropped
RevForget ==
    /\ vFailedAt' = "none"
    /\ UNCHANGED <<vPc, vMaxReviews, reviews, reviewIds, clickCount, vAdded, vResult,
                   vProductive>>

\* return { organization, rawData }, line 77
PageReturn ==
    /\ sPc = "return"
    /\ RetryInvoke([kind |-> "value", target |-> CurrentTarget,
                    organization |-> sOrg,
                    rawData |-> [source |-> sExtraction.source, url |-> CurrentTarget,
                                 item |-> sExtraction.item]])
    /\ PageLeave
    /\ UNCHANGED <<sReviewLog, sNulls, clockVars, rPlan, orchVars>>

(***************************************************************************)

\* withRetry's backoff while scrapeSingleOrganization is its fn: the sleep of
\* helpers.ts line 48 is time spent before the next page.goto
PageBackoff ==
    /\ RetryCatchBackoff
    /\ sWaited' = sWaited + RetryBackoff(rAttempt)
    /\ UNCHANGED <<pageVars, sDelayMs, rPlan, orchVars>>

(***************************************************************************)
(* Specifications.                                                         *)
(***************************************************************************)
\* withRetry on its own
OthersThanRetry == <<revVars, normVars, orchVars, unitVars>>

SpecRetryInit == RetryInit /\ RevIdle /\ NormIdle /\ OrchIdle /\ UnitIdle
SpecRetryNext ==
    \/ (RetryPlanned /\ UNCHANGED OthersThanRetry)
    \/ (RetryCatchFinal /\ UNCHANGED <<rPlan, OthersThanRetry>>)
    \/ (RetryCatchBackoff /\ UNCHANGED <<rPlan, OthersThanRetry>>)
    \/ (RetryFallThrough /\ UNCHANGED <<rPlan, OthersThanRetry>>)
SpecRetry == SpecRetryInit /\ [][SpecRetryNext]_vars

\* scrapeReviews on its own: any maxReviews, any feed
OthersThanReviews == <<retryVars, normVars, orchVars, unitVars>>

RevInit ==
    /\ vPc = "goto"
    /\ vMaxReviews \in 0..MaxReviewsBound
    /\ reviews = <<>>
    /\ reviewIds = {}
    /\ clickCount = 0
    /\ vAdded = -1
    /\ vResult = <<>>
    /\ vProductive = 0
    /\ vFailedAt = "none"

RevFailSteps == {"goto", "waitState", "bulk", "click", "scrape"}

SpecReviewsInit == RevInit /\ RetryIdle /\ NormIdle /\ OrchIdle /\ UnitIdle
SpecReviewsNext ==
    \/ (RevGoto /\ UNCHANGED OthersThanReviews)
    \/ (RevWaitState /\ UNCHANGED OthersThanReviews)
    \/ (RevBulkRead /\ UNCHANGED OthersThanReviews)
    \/ (RevButtonVisible /\ UNCHANGED OthersThanReviews)
    \/ (RevButtonHidden /\ UNCHANGED OthersThanReviews)
    \/ (RevLoopExit /\ UNCHANGED OthersThanReviews)
    \/ (RevClick /\ UNCHANGED OthersThanReviews)
    \/ (RevScrape /\ UNCHANGED OthersThanReviews)
    \/ (RevReturn /\ UNCHANGED OthersThanReviews)
    \/ (RevCatch /\ UNCHANGED OthersThanReviews)
    \/ (\E step \in RevFailSteps : RevFail(step) /\ UNCHANGED OthersThanReviews)
SpecReviews == SpecReviewsInit /\ [][SpecReviewsNext]_vars
SpecReviewsFair == SpecReviews /\ WF_vars(SpecReviewsNext)

\* scrapeReviews on a long feed, with any maxReviews up to its length
PaginateInit ==
    /\ vPc = "goto"
    /\ vMaxReviews \in 0..MaxRendered
    /\ reviews = <<>>
    /\ reviewIds = {}
    /\ clickCount = 0
    /\ vAdded = -1
    /\ vResult = <<>>
    /\ vProductive = 0
    /\ vFailedAt = "none"

SpecPaginateInit == PaginateInit /\ RetryIdle /\ NormIdle /\ OrchIdle /\ UnitIdle
SpecPaginateNext ==
    \/ (RevGoto /\ UNCHANGED OthersThanReviews)
    \/ (RevWaitState /\ UNCHANGED OthersThanReviews)
    \/ (RevBulkReadRendered /\ UNCHANGED OthersThanReviews)
    \/ (RevButtonVisible /\ UNCHANGED OthersThanReviews)
    \/ (RevButtonHidden /\ UNCHANGED OthersThanReviews)
    \/ (RevLoopExit /\ UNCHANGED OthersThanReviews)
    \/ (RevClick /\ UNCHANGED OthersThanReviews)
    \/ (RevScrapeRendered /\ UNCHANGED OthersThanReviews)
    \/ (RevReturn /\ UNCHANGED OthersThanReviews)
    \/ (RevCatch /\ UNCHANGED OthersThanReviews)
    \/ (\E step \in RevFailSteps : RevFail(step) /\ UNCHANGED OthersThanReviews)
SpecPaginate == SpecPaginateInit /\ [][SpecPaginateNext]_vars

\* extractOrganization on its own
OthersThanNorm == <<retryVars, revVars, orchVars, unitVars>>

SpecNormInit == NormInit /\ RetryIdle /\ RevIdle /\ OrchIdle /\ UnitIdle
SpecNormNext ==
    \/ (Normalize /\ UNCHANGED OthersThanNorm)
    \/ (NormalizeAgain /\ UNCHANGED OthersThanNorm)
    \/ (NormalizeListing /\ UNCHANGED OthersThanNorm)
SpecNorm == SpecNormInit /\ [][SpecNormNext]_vars

\* scrapeSearchResults called with any options
OthersThanOrch == <<revVars, normVars, unitVars>>

OrchBodySteps == {"readList", "urls", "listEval"}

SpecOrchInit == OrchInit /\ RetryIdle /\ RevIdle /\ NormIdle /\ UnitIdle
SpecOrchNext ==
    \/ (OrchOpenBrowser /\ UNCHANGED OthersThanOrch)
    \/ (OrchOpenFails /\ UNCHANGED OthersThanOrch)
    \/ (OrchDispatch /\ UNCHANGED OthersThanOrch)
    \/ (OrchReadList /\ UNCHANGED OthersThanOrch)
    \/ (\E at \in OrchBodySteps : OrchBodyThrows(at) /\ UNCHANGED OthersThanOrch)
    \/ (OrchLoopTop("fromListLoop", "fromListWait") /\ UNCHANGED OthersThanOrch)
    \/ (OrchLoopTop("fullLoop", "fullWait") /\ UNCHANGED OthersThanOrch)
    \/ (OrchFnInvoke /\ UNCHANGED OthersThanOrch)
    \/ (OrchRetryCatchFinal /\ UNCHANGED OthersThanOrch)
    \/ (OrchRetryCatchBackoff /\ UNCHANGED OthersThanOrch)
    \/ (OrchRetryFallThrough /\ UNCHANGED OthersThanOrch)
    \/ (OrchLoopResult("fromListLoop", "fromListWait") /\ UNCHANGED OthersThanOrch)
    \/ (OrchLoopResult("fullLoop", "fullWait") /\ UNCHANGED OthersThanOrch)
    \/ (OrchSingleResult /\ UNCHANGED OthersThanOrch)
    \/ (OrchNavResult /\ UNCHANGED OthersThanOrch)
    \/ (OrchResultsResult /\ UNCHANGED OthersThanOrch)
    \/ (OrchFirmUrls /\ UNCHANGED OthersThanOrch)
    \/ (OrchListEval /\ UNCHANGED OthersThanOrch)
    \/ (OrchListLoop /\ UNCHANGED OthersThanOrch)
    \/ (OrchFinally /\ UNCHANGED OthersThanOrch)
SpecOrch == SpecOrchInit /\ [][SpecOrchNext]_vars

\* the command line program: main validates the options, then calls
\* scrapeSearchResults
SpecCliInit == CliInit /\ RetryIdle /\ RevIdle /\ NormIdle /\ UnitIdle
SpecCliNext ==
    \/ (CliValidate /\ UNCHANGED OthersThanOrch)
    \/ SpecOrchNext
SpecCli == SpecCliInit /\ [][SpecCliNext]_vars

\* findContact on its own
OthersThanContact == <<retryVars, revVars, normVars, orchVars, extractVars, pageVars, clockVars, domVars, listVars, captureVars>>

SpecContactInit ==
    ContactInit /\ RetryIdle /\ RevIdle /\ NormIdle /\ OrchIdle /\ ExtractIdle /\ PageIdle
        /\ DomIdle /\ ListIdle /\ CaptureIdle
SpecContactNext ==
    \/ (ContactLookup /\ UNCHANGED OthersThanContact)
SpecContact == SpecContactInit /\ [][SpecContactNext]_vars

\* extractDataFromPage on its own
OthersThanExtract == <<retryVars, revVars, normVars, orchVars, contactVars, pageVars, clockVars, domVars, listVars, captureVars>>

SpecExtractInit ==
    ExtractInit /\ RetryIdle /\ RevIdle /\ NormIdle /\ OrchIdle /\ ContactIdle /\ PageIdle
        /\ DomIdle /\ ListIdle /\ CaptureIdle
SpecExtractNext ==
    \/ (ExtractCall /\ UNCHANGED OthersThanExtract)
SpecExtract == SpecExtractInit /\ [][SpecExtractNext]_vars

\* a search run from the result links on, scrapeSingleOrganization in steps
OthersThanPage == <<revVars, normVars, contactVars, extractVars, domVars, listVars, captureVars>>

PageFailSteps == {"goto", "wait"}

SpecPageInit ==
    PageRunInit /\ PageLocalsIdle /\ RetryIdle /\ RevIdle /\ NormIdle /\ ContactIdle /\ ExtractIdle
        /\ DomIdle /\ ListIdle /\ CaptureIdle
SpecPageNext ==
    \/ (OrchLoopTop("fullLoop", "fullWait") /\ UNCHANGED <<pageVars, clockVars, OthersThanPage>>)
    \/ (PageBegin /\ UNCHANGED OthersThanPage)
    \/ (PageGoto /\ UNCHANGED OthersThanPage)
    \/ (\E step \in PageFailSteps : PageStepFails(step) /\ UNCHANGED OthersThanPage)
    \/ (PageWait /\ UNCHANGED OthersThanPage)
    \/ (PageExtract /\ UNCHANGED OthersThanPage)
    \/ (PageCheck /\ UNCHANGED OthersThanPage)
    \/ (PageReviews /\ UNCHANGED OthersThanPage)
    \/ (PageReturn /\ UNCHANGED OthersThanPage)
    \/ (OrchRetryCatchFinal /\ UNCHANGED <<pageVars, clockVars, OthersThanPage>>)
    \/ (PageBackoff /\ UNCHANGED OthersThanPage)
    \/ (OrchRetryFallThrough /\ UNCHANGED <<pageVars, clockVars, OthersThanPage>>)
    \/ (OrchLoopResult("fullLoop", "fullWait") /\ UNCHANGED <<pageVars, clockVars, OthersThanPage>>)
    \/ (OrchListEval /\ UNCHANGED <<pageVars, clockVars, OthersThanPage>>)
    \/ (OrchListLoop /\ UNCHANGED <<pageVars, clockVars, OthersThanPage>>)
    \/ (OrchFinally /\ UNCHANGED <<pageVars, clockVars, OthersThanPage>>)
SpecPage == SpecPageInit /\ [][SpecPageNext]_vars

\* extractReviewsFromDOM on its own
OthersThanDom ==
    <<retryVars, revVars, normVars, orchVars, contactVars, extractVars, pageVars, clockVars,
      listVars, captureVars>>

SpecDomInit ==
    DomInit /\ RetryIdle /\ RevIdle /\ NormIdle /\ OrchIdle /\ ContactIdle /\ ExtractIdle
        /\ PageIdle /\ ListIdle /\ CaptureIdle
SpecDomNext ==
    \/ (DomExtract /\ UNCHANGED OthersThanDom)
SpecDom == SpecDomInit /\ [][SpecDomNext]_vars

\* scrapeReviews on the reviews tab of one organization, with
\* extractReviewsFromInitialState and extractReviewsFromDOM computed from
\* the page.  The document (dLinks) holds one text link per review, in feed
\* order; the review at position k is entry k of state.data.review.
LongText(last) == [k \in 1..(IdPrefixLen + 1) |-> IF k <= IdPrefixLen THEN "a" ELSE last]

FeedTexts == {Good, LongText("x"), LongText("y")}

FeedContainers == [official : {FALSE}, svgs : {5}, author : {"Ann", "Bob"}, date : {"May"}]

FeedLinkElements == [text : FeedTexts, container : FeedContainers]

\* the id of the item built at reviews.ts lines 19-31 for the review at
\* position k: its key in state.data.review
NativeId(k) == <<"key", k>>

\* the id extractReviewsFromDOM gives the review of a link when it keeps it
LinkDomId(link) == DomId(link.container.author, link.container.date, link.text)

ReviewIdsOf(items) == [k \in 1..Len(items) |-> items[k].id]

FeedInit ==
    /\ RevInit
    /\ dPc = "start"
    /\ dLinks \in SeqsUpTo(FeedLinkElements, MaxDomLinks)
    /\ dResult = <<>>

\* state.data.review holds the first n reviews of the feed
RevBulkReadState ==
    /\ RevBulkReadFrom({[k \in 1..n |-> NativeId(k)] : n \in 0..Len(dLinks)})
    /\ UNCHANGED domVars

\* after a click every review of the feed is rendered; dResult keeps what
\* the last extractReviewsFromDOM returned
RevScrapeDocument ==
    /\ RevScrapeFrom({ReviewIdsOf(extractReviewsFromDOM(dLinks))})
    /\ dResult' = extractReviewsFromDOM(dLinks)
    /\ dPc' = "done"
    /\ UNCHANGED dLinks

OthersThanFeed ==
    <<retryVars, normVars, orchVars, contactVars, extractVars, pageVars, clockVars,
      listVars, captureVars>>

SpecFeedInit ==
    FeedInit /\ RetryIdle /\ NormIdle /\ OrchIdle /\ ContactIdle /\ ExtractIdle
        /\ PageIdle /\ ListIdle /\ CaptureIdle
SpecFeedNext ==
    \/ (RevGoto /\ UNCHANGED <<domVars, OthersThanFeed>>)
    \/ (RevWaitState /\ UNCHANGED <<domVars, OthersThanFeed>>)
    \/ (RevBulkReadState /\ UNCHANGED OthersThanFeed)
    \/ (RevButtonVisible /\ UNCHANGED <<domVars, OthersThanFeed>>)
    \/ (RevButtonHidden /\ UNCHANGED <<domVars, OthersThanFeed>>)
    \/ (RevLoopExit /\ UNCHANGED <<domVars, OthersThanFeed>>)
    \/ (RevClick /\ UNCHANGED <<domVars, OthersThanFeed>>)
    \/ (RevScrapeDocument /\ UNCHANGED OthersThanFeed)
    \/ (RevReturn /\ UNCHANGED <<domVars, OthersThanFeed>>)
    \/ (RevCatch /\ UNCHANGED <<domVars, OthersThanFeed>>)
    \/ (\E step \in RevFailSteps : RevFail(step) /\ UNCHANGED <<domVars, OthersThanFeed>>)
SpecFeed == SpecFeedInit /\ [][SpecFeedNext]_vars

\* readListFile on its own
OthersThanList ==
    <<retryVars, revVars, normVars, orchVars, contactVars, extractVars, pageVars, clockVars,
      domVars, captureVars>>

SpecListInit ==
    ListInit /\ RetryIdle /\ RevIdle /\ NormIdle /\ OrchIdle /\ ContactIdle /\ ExtractIdle
        /\ PageIdle /\ DomIdle /\ CaptureIdle
SpecListNext ==
    \/ (ListRead /\ UNCHANGED OthersThanList)
SpecList == SpecListInit /\ [][SpecListNext]_vars

\* scrapeSearchResults with scrapeSingleOrganization and scrapeReviews
\* followed step by step in the full loop of a search run (the other paths
\* take fn as one step), on search pages whose links all differ
OthersThanRun == <<normVars, contactVars, extractVars, domVars, listVars, captureVars>>

\* the modes whose runs differ here: in full mode (and under an unknown mode
\* name) a run is a full-with-reviews run that never calls scrapeReviews
ReviewRunModes == {"list", "full-with-reviews"}

\* maxRecords cuts the targets down to one, or is as large as tried
RunMaxRecords == {1, MaxRecordsBound}

SpecRunInit ==
    OrchInit /\ options.scrapingMode \in ReviewRunModes
        /\ options.maxRecords \in RunMaxRecords
        /\ RetryIdle /\ RevIdle /\ NormIdle /\ UnitIdle
SpecRunNext ==
    \/ (OrchOpenBrowser /\ UNCHANGED OthersThanOrch)
    \/ (OrchOpenFails /\ UNCHANGED OthersThanOrch)
    \/ (OrchDispatch /\ UNCHANGED OthersThanOrch)
    \/ (OrchReadList /\ UNCHANGED OthersThanOrch)
    \/ (\E at \in OrchBodySteps : OrchBodyThrows(at) /\ UNCHANGED OthersThanOrch)
    \/ (OrchLoopTop("fromListLoop", "fromListWait") /\ UNCHANGED OthersThanOrch)
    \/ (OrchLoopTop("fullLoop", "fullWait") /\ UNCHANGED OthersThanOrch)
    \/ (oPc # "fullWait" /\ OrchFnInvoke /\ UNCHANGED OthersThanOrch)
    \/ (OrchRetryCatchFinal /\ UNCHANGED OthersThanOrch)
    \/ (PageBackoff /\ UNCHANGED OthersThanPage)
    \/ (OrchRetryFallThrough /\ UNCHANGED OthersThanOrch)
    \/ (OrchLoopResult("fromListLoop", "fromListWait") /\ UNCHANGED OthersThanOrch)
    \/ (OrchLoopResult("fullLoop", "fullWait") /\ UNCHANGED OthersThanOrch)
    \/ (OrchSingleResult /\ UNCHANGED OthersThanOrch)
    \/ (OrchNavResult /\ UNCHANGED OthersThanOrch)
    \/ (OrchResultsResult /\ UNCHANGED OthersThanOrch)
    \/ (OrchFirmUrlsDistinct /\ UNCHANGED OthersThanOrch)
    \/ (OrchListEval /\ UNCHANGED OthersThanOrch)
    \/ (OrchListLoop /\ UNCHANGED OthersThanOrch)
    \/ (OrchFinally /\ UNCHANGED OthersThanOrch)
    \/ (PageBegin /\ UNCHANGED OthersThanPage)
    \/ (PageGoto /\ UNCHANGED OthersThanPage)
    \/ (\E step \in PageFailSteps : PageStepFails(step) /\ UNCHANGED OthersThanPage)
    \/ (PageWait /\ UNCHANGED OthersThanPage)
    \/ (PageExtract /\ UNCHANGED OthersThanPage)
    \/ (PageCheck /\ UNCHANGED OthersThanPage)
    \/ (PageReviewsCall /\ UNCHANGED OthersThanRun)
    \/ (RevGoto /\ UNCHANGED OthersThanReviews)
    \/ (RevWaitState /\ UNCHANGED OthersThanReviews)
    \/ (RevBulkReadRendered /\ UNCHANGED OthersThanReviews)
    \/ (RevButtonVisible /\ UNCHANGED OthersThanReviews)
    \/ (RevButtonHidden /\ UNCHANGED OthersThanReviews)
    \/ (RevLoopExit /\ UNCHANGED OthersThanReviews)
    \/ (RevClick /\ UNCHANGED OthersThanReviews)
    \/ (RevScrapeRendered /\ UNCHANGED OthersThanReviews)
    \/ (RevReturn /\ UNCHANGED OthersThanReviews)
    \/ (RevCatch /\ UNCHANGED OthersThanReviews)
    \/ (\E step \in RevFailSteps : RevFail(step) /\ UNCHANGED OthersThanReviews)
    \/ (PageReviewsSettled /\ UNCHANGED OthersThanRun)
    \/ (PageReturn /\ RevForget /\ UNCHANGED OthersThanRun)
SpecRun == SpecRunInit /\ [][SpecRunNext]_vars
SpecRunFair == SpecRun /\ WF_vars(SpecRunNext)

\* the response-capturing scraper's per-target loop
OthersThanCapture ==
    <<retryVars, revVars, normVars, orchVars, contactVars, extractVars, pageVars, clockVars,
      domVars, listVars>>

SpecCaptureInit ==
    CaptureInit /\ RetryIdle /\ RevIdle /\ NormIdle /\ OrchIdle /\ ContactIdle /\ ExtractIdle
        /\ PageIdle /\ DomIdle /\ ListIdle
SpecCaptureNext ==
    \/ (CapLoopTop /\ UNCHANGED OthersThanCapture)
    \/ (CapCall /\ UNCHANGED OthersThanCapture)
    \/ (CapGoto /\ UNCHANGED OthersThanCapture)
    \/ (CapGotoFails /\ UNCHANGED OthersThanCapture)
    \/ (CapResponse /\ UNCHANGED OthersThanCapture)
    \/ (\E d \in 1..MaxTargets : CapJsonResolves(d) /\ UNCHANGED OthersThanCapture)
    \/ (\E d \in 1..MaxTargets : CapJsonRejects(d) /\ UNCHANGED OthersThanCapture)
    \/ (CapSleep /\ UNCHANGED OthersThanCapture)
    \/ (CapExtract /\ UNCHANGED OthersThanCapture)
    \/ (CapGoBack /\ UNCHANGED OthersThanCapture)
    \/ (CapReturn /\ UNCHANGED OthersThanCapture)
SpecCapture == SpecCaptureInit /\ [][SpecCaptureNext]_vars

(***************************************************************************)
(* Claims.                                                                 *)
(***************************************************************************)
\* the operation fails on each invocation
AlwaysFails == \A k \in 1..Len(rPlan) : rPlan[k].kind = "throw"

\* C1: for every maxRetries, when the operation fails on each invocation,
\* withRetry invokes it exactly maxRetries times, then returns null, and
\* never lets an exception reach its caller.
C1_RetryBound ==
    /\ rPc # "threw"
    /\ (AlwaysFails /\ rPc = "done") =>
          /\ rCalls = rMaxRetries
          /\ rFails = rMaxRetries
          /\ rResult = Null
    /\ AlwaysFails => rCalls <= rMaxRetries

C1_Witness ==
    /\ AlwaysFails
    /\ rPc = "done"
    /\ rMaxRetries = 3
    /\ rCalls = 3
    /\ rResult = Null

NoDuplicates(s) == \A a, b \in 1..Len(s) : s[a] = s[b] => a = b

\* C2: at every point of scrapeReviews the accumulator holds each review id
\* at most once and at most maxReviews entries, whatever the bulk batch and
\* the DOM batches are, and so does the returned list.
C2_ReviewDedupCap ==
    /\ NoDuplicates(reviews)
    /\ Len(reviews) <= vMaxReviews
    /\ Range(reviews) = reviewIds
    /\ vPc = "done" =>
          /\ NoDuplicates(vResult)
          /\ Len(vResult) <= vMaxReviews

\* a run that reached the cap although a DOM batch repeated ids already held
C2_Witness ==
    /\ vPc = "done"
    /\ clickCount >= 1
    /\ vProductive >= 1
    /\ Len(vResult) = MaxReviewsBound
    /\ vMaxReviews = MaxReviewsBound
    /\ vFailedAt = "none"

\* C3: a click whose scrape holds no unseen review is the last one, so a
\* feed that yields new reviews for its first N clicks only is clicked at
\* most N + 1 times, and scrapeReviews reaches its terminal state.
C3_PaginationTerminates ==
    /\ [](clickCount <= vProductive + 1)
    /\ [](vAdded = 0 => vPc \in {"return", "done"})
    /\ <>(vPc = "done")

\* one productive click, then one click that brought nothing new: N + 1 = 2
C3_Witness ==
    /\ vPc = "done"
    /\ vFailedAt = "none"
    /\ vProductive = 1
    /\ clickCount = 2
    /\ vAdded = 0

\* C4: once scrapeSearchResults has obtained a browser session, closeBrowser
\* has been invoked on it before control leaves the function, whether by
\* normal completion, by an early return, or by an exception thrown in the
\* orchestration body.
C4_BrowserClosedOnExit ==
    (oPc \in {"returned", "threw"} /\ browser # "none") =>
        (closeCalls >= 1 /\ browser = "closed")

\* an exception thrown in the body (page.$$eval) left the function after
\* the browser was closed
C4_Witness ==
    /\ oPc = "threw"
    /\ oExc = "urls"
    /\ browser = "closed"
    /\ closeCalls = 1

\* were the record and the raw entry produced from the same target: the
\* raw entry is target url's page and the record is what extractOrganization
\* builds from that page (with or without reviews), or the listing entry's
\* own list-mode record
SameTarget(rec, raw) ==
    IF "item" \in DOMAIN raw
      THEN /\ raw.item = PageItems[raw.url]
           /\ [f \in DOMAIN rec \ {"reviews"} |-> rec[f]] = PageRecords[raw.url]
      ELSE rec = ListModeRecord(raw)

\* C5: in every reachable state, in every mode, organizations and rawData
\* have the same length and the record at i and the raw item at i were
\* produced from the same target; this holds for the returned pair too.
C5_ListsAligned ==
    /\ Len(organizations) = Len(rawData)
    /\ \A i \in 1..Len(organizations) : SameTarget(organizations[i], rawData[i])

\* two different targets were scraped and the pair returned
C5_Witness ==
    /\ oPc = "returned"
    /\ Len(organizations) = 2
    /\ "item" \in DOMAIN rawData[1]
    /\ rawData[1].url # rawData[2].url
    /\ organizations[1].name # organizations[2].name

\* the run takes a per-target loop around withRetry
MultiTargetRun == options.fromList \/ (options.orgId = 0 /\ options.scrapingMode # "list")

FailedEntries == {k \in 1..Len(oLog) : ~oLog[k].ok}

\* C6: in a multi-target run a target that fails on all its retry attempts
\* increments the failure counter and the orchestrator goes on to the next
\* target; every selected target is attempted whatever happened to earlier
\* ones, and no exception raised while processing one target escapes.
C6_TargetFailureIsolated ==
    /\ oExc # "target"
    /\ failureCount = Cardinality(FailedEntries)
    /\ \A k \in FailedEntries : oLog[k].calls = options.maxRetries
    /\ \A k \in 1..Len(oLog) : k <= totalToScrape /\ oLog[k].target = targets[k]
    /\ oPc \in {"fromListLoop", "fromListWait", "fullLoop", "fullWait"} => Len(oLog) = oI
    /\ (MultiTargetRun /\ oPc \in {"finally", "returned"} /\ oExc = "none") =>
           Len(oLog) = totalToScrape

\* the first target failed on both attempts, the second was scraped
C6_Witness ==
    /\ oPc = "returned"
    /\ Len(oLog) = 2
    /\ ~oLog[1].ok
    /\ oLog[1].calls = 2
    /\ oLog[2].ok
    /\ failureCount = 1
    /\ successCount = 1

\* no query, no record identifier and no list file, or an unknown mode
InvalidConfiguration(o) ==
    \/ (~o.query /\ o.orgId = 0 /\ ~o.fromList)
    \/ o.scrapingMode \notin Modes

\* C7: a configuration with no query, no identifier and no list file, or
\* with a mode other than list / full / full-with-reviews, fails fast before
\* execution starts: no browser session is opened, no target is processed.
C7_InvalidConfigFailsFast ==
    InvalidConfiguration(options) =>
        /\ oPc \in {"validate", "exit1"}
        /\ oPc = "exit1" => exitCode = 1
        /\ browser = "none"
        /\ closeCalls = 0
        /\ rCalls = 0
        /\ oLog = <<>>
        /\ organizations = <<>>

\* a configuration with a known mode but nothing to scrape was refused
C7_Witness ==
    /\ ~options.query /\ options.orgId = 0 /\ ~options.fromList
    /\ options.scrapingMode \in Modes
    /\ oPc = "exit1"
    /\ exitCode = 1
    /\ browser = "none"

\* C8: scrapeReviews never throws; whichever step fails, it returns the
\* reviews accumulated up to that point, truncated to maxReviews.
C8_ReviewsNeverThrow ==
    /\ vPc # "threw"
    /\ vPc = "done" => vResult = Slice(reviews, vMaxReviews)
    /\ (vPc = "done" /\ vFailedAt \in {"goto", "waitState", "bulk"}) => vResult = <<>>

\* the DOM scrape after the second click failed with two reviews collected
C8_Witness ==
    /\ vPc = "done"
    /\ vFailedAt = "scrape"
    /\ clickCount = 2
    /\ Len(vResult) = 2

\* C9: every record, whether built by the normal path, by the fallback of
\* the outer catch or in list mode, has a rubrics field that is an array.
C9_RubricsArray ==
    nPc = "done" =>
        /\ "rubrics" \in DOMAIN nRecord
        /\ IsArray(nRecord.rubrics)

\* a raw item whose rubrics is not an array went through the normal path
C9_Witness ==
    /\ nPc = "done"
    /\ nSource = "detail"
    /\ ~UsedFallback(nItem)
    /\ ~IsArray(nItem.rubrics)
    /\ ~Nullish(nItem.rubrics)
    /\ nRecord.rubrics = List(<<>>)

\* the raw item has exactly one malformed field group
OneMalformed == nSource = "detail" /\ Cardinality(nDevs) = 1 /\ \A d \in nDevs : d.bad

BaseRecord == extractOrganization(BaseItem)

\* C10: when exactly one field group of the raw item is malformed, only
\* that group's fields are affected: name, address and rubrics are there and
\* every field of every other group is as for the well-formed item.
C10_PartialFieldResilience ==
    (nPc = "done" /\ OneMalformed) =>
        LET d == CHOOSE x \in nDevs : TRUE IN
          /\ {"name", "address", "rubrics"} \subseteq DOMAIN nRecord
          /\ nRecord.address = BaseRecord.address
          /\ \A f \in DOMAIN BaseRecord \ GroupFields(d.g) :
                f \in DOMAIN nRecord /\ nRecord[f] = BaseRecord[f]

\* the minimal record the claim describes for a raw item
MinimalRecordOf(item) ==
    [name |-> IF item = JNull \/ Nullish(item.name) THEN Str("Unknown") ELSE item.name,
     address |-> IF item = JNull \/ Nullish(item.address_name) THEN Str("")
                 ELSE item.address_name,
     rubrics |-> List(<<>>)]

\* C11: extractOrganization never propagates an exception, whatever the raw
\* item; when normalization as a whole throws it returns the minimal record
\* of name, address and empty rubrics taken from the raw item's name and
\* address_name.
C11_FallbackRecord ==
    /\ nPc # "threw"
    /\ (nPc = "done" /\ nSource = "detail" /\ UsedFallback(nItem)) =>
           nRecord = MinimalRecordOf(nItem)

\* the outer catch took the name and address of a raw item whose contacts
\* cannot be read
C11_Witness ==
    /\ nPc = "done"
    /\ nSource = "detail"
    /\ UsedFallback(nItem)
    /\ nItem # JNull
    /\ nRecord.name = Str("Test Org")
    /\ nRecord.address = Str("Test Street, 1")
    /\ DOMAIN nRecord = {"name", "address", "rubrics"}

SourceProps(f) ==
    CASE f \in {"phone", "email", "website"} -> {"contact_groups"}
      [] f = "description" -> {"name_ex"}
      [] f = "addressComment" -> {"address_comment"}
      [] f \in {"postcode", "city", "district", "region", "country"} -> {"address"}
      [] f = "timezone" -> {"timezone"}
      [] f = "schedule" -> {"schedule"}
      [] f \in {"rating", "reviewCount"} -> {"reviews"}
      [] f = "type" -> {"type"}
      [] f = "coordinates" -> {"point"}
      [] f = "nearestMetro" -> {"links"}
      [] f \in {"paymentMethods", "features"} -> {"attribute_groups"}
      [] f \in {"orgName", "orgId", "branchCount"} -> {"org"}
      [] f = "photoCount" -> {"external_content"}
      [] f = "hasPhotos" -> {"flags"}
      [] f \in {"createdAt", "updatedAt"} -> {"dates"}

AddressTags == {"city", "district", "region", "country"}

\* the name of the first entry of comps carrying the tag, Absent if none
RECURSIVE FirstWithTag(_, _)
FirstWithTag(comps, tag) ==
    IF comps = <<>> THEN Absent
    ELSE IF StrEq(Prop(Head(comps), "type"), tag) THEN Prop(Head(comps), "name")
    ELSE FirstWithTag(Tail(comps), tag)

\* the raw item has an address whose components list can be iterated
HasComponents ==
    /\ nSource = "detail"
    /\ nItem # JNull
    /\ ~UsedFallback(nItem)
    /\ Truthy(nItem.address)
    /\ IsArray(Prop(nItem.address, "components"))
    /\ \A k \in 1..Len(Prop(nItem.address, "components").v) :
          ~Nullish(Prop(nItem.address, "components").v[k])

\* C14: for each of the tags city, district, region and country the
\* record's value is the name of the first entry of the components list
\* carrying the tag, wherever the entries sit; later entries with the same
\* tag do not change it.
C14_FirstComponentWins ==
    (nPc = "done" /\ HasComponents) =>
        \A tag \in AddressTags :
            LET first == FirstWithTag(Prop(nItem.address, "components").v, tag) IN
              IF Truthy(first)
                THEN tag \in DOMAIN nRecord /\ nRecord[tag] = first
                ELSE tag \notin DOMAIN nRecord

\* the contacts of all groups, in source order
RECURSIVE FlatContacts(_)
FlatContacts(gs) ==
    IF gs = <<>> THEN <<>>
    ELSE (IF IsArray(Prop(Head(gs), "contacts")) THEN Prop(Head(gs), "contacts").v ELSE <<>>)
           \o FlatContacts(Tail(gs))

\* the value of the first entry of cs of type ty, Absent if there is none
RECURSIVE FirstValueOfType(_, _)
FirstValueOfType(cs, ty) ==
    IF cs = <<>> THEN Absent
    ELSE IF StrEq(Prop(Head(cs), "type"), ty) THEN Prop(Head(cs), "value")
    ELSE FirstValueOfType(Tail(cs), ty)

\* C15: findContact(item, type) returns the value of the first contact entry
\* of the type met when scanning all contact groups in source order, and
\* undefined when contact_groups is missing or empty or holds no entry of
\* the type.
C15_FirstContactOfType ==
    fcPc = "done" =>
        /\ ~fcResult.thrown
        /\ fcResult.value =
              IF Nullish(fcItem.contact_groups) THEN Absent
              ELSE FirstValueOfType(FlatContacts(fcItem.contact_groups.v), fcType)

\* the phone was found in the second group, ahead of another phone in it,
\* after a first group holding only an email
C15_Witness ==
    /\ fcPc = "done"
    /\ fcType = "phone"
    /\ ~Nullish(fcItem.contact_groups)
    /\ Len(fcItem.contact_groups.v) = 2
    /\ fcItem.contact_groups.v[1] = GroupOfShape(<<"email">>, 1)
    /\ fcItem.contact_groups.v[2] = GroupOfShape(<<"phone", "phone">>, 2)
    /\ fcResult.value = Num(21)

\* the first intercepted response holds an item
FirstResponseHasItem == xCapturing /\ Len(xCaptured) > 0 /\ xCaptured[1] # NoItem

\* some intercepted response holds an item
SomeResponseHasItem == xCapturing /\ \E k \in 1..Len(xCaptured) : xCaptured[k] # NoItem

\* C17 (as amended): sources are tried in fixed order: when the caller is
\* capturing responses and the first intercepted response holds an item,
\* that item is returned tagged as the intercepted source and the embedded
\* state is not read; otherwise the data of the first entry of the embedded
\* state's entity-profile map is returned tagged as the state source, and
\* null when that entry or its data is missing or evaluation fails.
C17_ExtractionPriority ==
    xPc = "done" =>
        IF FirstResponseHasItem
          THEN /\ xResult.item = xCaptured[1]
               /\ xResult.source = "api"
               /\ ~xResult.evaluated
          ELSE IF xState.kind = "profiles" /\ xState.entries # <<>>
                    /\ xState.entries[1] # NoItem
            THEN xResult.item = xState.entries[1] /\ xResult.source = "initialState"
            ELSE xResult.isNull

\* the intercepted item was preferred to a usable embedded state
C17_Witness ==
    /\ xPc = "done"
    /\ FirstResponseHasItem
    /\ xState.kind = "profiles" /\ xState.entries # <<>> /\ xState.entries[1] # NoItem
    /\ xResult.source = "api"

\* C17 (as stated): whenever the caller is capturing and an intercepted
\* response holding an item is available, that item is returned tagged as
\* the intercepted source.
C17_AnyInterceptedItemWins ==
    (xPc = "done" /\ SomeResponseHasItem) =>
        /\ xResult.source = "api"
        /\ \E k \in 1..Len(xCaptured) : xResult.item = xCaptured[k]


\* the embedded state has no entity-profile entry with a data payload, or
\* evaluating it in the page failed
NoDataPayload(state) ==
    \/ state.kind # "profiles"
    \/ \A k \in 1..Len(state.entries) : state.entries[k] = NoItem

\* C16: extractDataFromPage returns null, without throwing, when the embedded
\* state has no profile entry with data or when in-page evaluation fails; to
\* scrapeSingleOrganization that null is a failed attempt like any other, so
\* withRetry does not settle on a null before the target has been attempted
\* maxRetries times, every null attempt is counted as a failed attempt, and
\* the run is never terminated by it: once every target has been handled the
\* failed ones are counted in failureCount and the pair is returned.
C16_NullExtractionIsRetriedFailure ==
    /\ (sPc = "check" /\ NoDataPayload(sState)) => sExtraction.isNull
    /\ (oPc = "fullWait" /\ rPc = "done" /\ rResult.kind = "null" /\ sNulls > 0)
          => rCalls = rMaxRetries
    /\ (oPc = "fullWait" /\ rCalls > 0) => sNulls <= rFails
    /\ oExc = "none"
    /\ oPc # "threw"
    /\ (oPc = "returned" /\ options.scrapingMode # "list")
          => /\ Len(oLog) = totalToScrape
             /\ failureCount = Cardinality({k \in 1..Len(oLog) : ~oLog[k].ok})
             /\ successCount + failureCount = totalToScrape

\* the last of two targets extracted null on both of its attempts, was
\* counted as failed, and the run returned what the other target gave
C16_Witness ==
    /\ oPc = "returned"
    /\ sNulls = 2
    /\ Len(oLog) = 2
    /\ oLog[1].ok
    /\ ~oLog[2].ok /\ oLog[2].calls = 2
    /\ failureCount = 1
    /\ Len(organizations) = 1

HasReviews(rec) == "reviews" \in DOMAIN rec

\* the urls of the raw items that carry an id, in order
RECURSIVE UrlsWithId(_)
UrlsWithId(raw) ==
    IF raw = <<>> THEN <<>>
    ELSE LET rest == UrlsWithId(SubSeq(raw, 1, Len(raw) - 1))
             last == raw[Len(raw)]
         IN IF "item" \in DOMAIN last /\ Truthy(last.item.id)
              THEN Append(rest, last.url) ELSE rest

\* scrapeReviews has been invoked for the current target and its record is
\* not pushed yet
ReviewsPending ==
    IF oPc = "fullWait"
         /\ \/ (sPc = "return" /\ HasReviews(sOrg))
            \/ (sPc = "idle" /\ rPc = "done" /\ rResult.kind = "value"
                  /\ HasReviews(rResult.organization))
      THEN <<CurrentTarget>> ELSE <<>>

\* C20 (amended): the review engine is gated by mode and by the raw item's
\* id: in full-with-reviews mode scrapeReviews is invoked once per
\* successfully extracted organization whose raw item has an id, and exactly
\* those records carry a reviews field; in full mode and list mode
\* scrapeReviews is never invoked and no record carries a reviews field.
C20_ReviewsGatedByModeAndId ==
    /\ options.scrapingMode # "full-with-reviews"
          => /\ sReviewLog = <<>>
             /\ ~HasReviews(sOrg)
             /\ \A i \in 1..Len(organizations) : ~HasReviews(organizations[i])
    /\ options.scrapingMode = "full-with-reviews"
          => /\ Len(organizations) = Len(rawData)
             /\ \A i \in 1..Len(organizations) :
                   HasReviews(organizations[i]) <=> Truthy(rawData[i].item.id)
             /\ sReviewLog = UrlsWithId(rawData) \o ReviewsPending

\* two organizations were extracted in full-with-reviews mode, one from an
\* item with an id and one from an item without
C20_Witness ==
    /\ oPc = "returned"
    /\ options.scrapingMode = "full-with-reviews"
    /\ Len(organizations) = 2
    /\ HasReviews(organizations[1])
    /\ ~HasReviews(organizations[2])
    /\ Len(sReviewLog) = 1

\* C20 as stated: in full-with-reviews mode every successfully extracted
\* organization carries a reviews field.
C20_ReviewsForEveryOrganization ==
    options.scrapingMode = "full-with-reviews"
        => \A i \in 1..Len(organizations) : HasReviews(organizations[i])

\* the options the command line lets through for a list-mode run
ListRun == options.scrapingMode = "list" /\ oPc \notin {"validate", "exit1"}

\* C18: in a list-mode run withRetry is never given scrapeSingleOrganization
\* and no target is ever attempted; the records number at most maxRecords
\* and each has exactly name, address '', rubrics [] and the orgId of its
\* listing link.
C18_ListModeNoDetailPages ==
    ListRun
        => /\ rOp # "org"
           /\ oLog = <<>>
           /\ oPc \notin {"fullLoop", "fullWait", "single", "fromListLoop", "fromListWait"}
           /\ Len(organizations) <= options.maxRecords
           /\ Len(organizations) = Len(rawData)
           /\ \A i \in 1..Len(organizations) :
                 /\ DOMAIN organizations[i] = {"name", "address", "rubrics", "orgId"}
                 /\ organizations[i].name = rawData[i].name
                 /\ organizations[i].address = Str("")
                 /\ organizations[i].rubrics = List(<<>>)
                 /\ organizations[i].orgId = rawData[i].firmId

\* a list-mode run returned two records
C18_Witness ==
    /\ ListRun
    /\ oPc = "returned"
    /\ Len(organizations) = 2
    /\ options.maxRecords = 2
    /\ organizations[1].orgId # organizations[2].orgId

\* a run over the result links of a search, each scraped in full
SearchRun ==
    /\ options.query /\ options.orgId = 0 /\ ~options.fromList
    /\ options.scrapingMode \in {"full", "full-with-reviews"}

\* C19: in a run over live search result links no two selected targets have
\* the same href, no url is attempted twice and no two output records stem
\* from the same url.
C19_TargetsDeduplicated ==
    SearchRun
        => /\ \A i, j \in 1..totalToScrape : i # j => targets[i] # targets[j]
           /\ \A i, j \in 1..Len(oLog) : i # j => oLog[i].target # oLog[j].target
           /\ \A i, j \in 1..Len(rawData) : i # j => rawData[i].url # rawData[j].url


\* the number of the first invocation on which the operation does not throw,
\* 0 when it throws on each
FirstSuccess(plan) ==
    IF \E k \in 1..Len(plan) : plan[k].kind # "throw"
      THEN CHOOSE k \in 1..Len(plan) :
             /\ plan[k].kind # "throw"
             /\ \A j \in 1..(k - 1) : plan[j].kind = "throw"
      ELSE 0

\* C23: when the operation first succeeds on its k-th invocation and
\* 1 <= k <= maxRetries, withRetry settles after exactly k invocations with
\* the result of the k-th; it never invokes the operation more than
\* maxRetries times, and once it has settled it invokes nothing more.
C23_StopsAtFirstSuccess ==
    /\ [](rCalls <= rMaxRetries)
    /\ []((rPc = "done" /\ FirstSuccess(rPlan) \in 1..rMaxRetries)
             => /\ rCalls = FirstSuccess(rPlan)
                /\ rResult = rPlan[FirstSuccess(rPlan)])
    /\ [](FirstSuccess(rPlan) \in 1..rMaxRetries => rCalls <= FirstSuccess(rPlan))
    /\ [][rPc = "done" => rCalls' = rCalls]_vars

\* two failures, then a value on the third of four allowed invocations
C23_Witness ==
    /\ rPc = "done"
    /\ rMaxRetries = 4
    /\ FirstSuccess(rPlan) = 3
    /\ rCalls = 3
    /\ rResult = Value(1)

C25_PaginateOnlyBelowCap ==
    /\ [][(vPc = "bulk" /\ vPc' # "catch" /\ Len(reviews') >= vMaxReviews)
             => vPc' = "return"]_vars
    /\ [][(vPc \in {"return", "done", "catch"})
             => (vPc' \notin {"loop", "click", "scrape"}
                   /\ clickCount' = clickCount /\ reviews' = reviews)]_vars
    /\ []((vPc = "loop" /\ clickCount = 0) => Len(reviews) < vMaxReviews)
    /\ [](vMaxReviews = 0 => (clickCount = 0 /\ vPc \notin {"loop", "click", "scrape"}))

\* the bulk read alone filled the accumulator to the cap and the call
\* returned without a click
C25_Witness ==
    /\ vPc = "done"
    /\ vFailedAt = "none"
    /\ vMaxReviews = MaxReviewsBound
    /\ Len(vResult) = MaxReviewsBound
    /\ clickCount = 0
    /\ vAdded = -1

\* C26: the number of load-more clicks never exceeds 20; a click is made
\* only while the accumulator is below maxReviews and fewer than 20 clicks
\* have been made; the top of the loop is reached again only after a click
\* cycle that added a review; a cycle that added none is followed by the
\* return.  (A trigger that is not visible leaves the loop in the same step
\* that finds it so.)
C26_ClickLimit ==
    /\ clickCount <= 20
    /\ vPc = "click" => (Len(reviews) < vMaxReviews /\ clickCount < 20)
    /\ vPc = "scrape" => (Len(reviews) < vMaxReviews /\ clickCount \in 1..20)
    /\ (vPc = "loop" /\ clickCount > 0) => vAdded > 0
    /\ (vAdded = 0 /\ vFailedAt = "none") => vPc \in {"return", "done"}

\* twenty clicks were made, each adding a review, and the loop was left with
\* the accumulator still below maxReviews
C26_Witness ==
    /\ vPc = "done"
    /\ vFailedAt = "none"
    /\ clickCount = 20
    /\ vAdded > 0
    /\ Len(vResult) < vMaxReviews


\* C21: the rating of every review returned by extractReviewsFromDOM is an
\* integer in 0..5, is the number of filled star icons found in the
\* container of the link the review was built from, and is 0 when the
\* container holds none.
C21_RatingIsStarCount ==
    dPc = "done" =>
        \A k \in 1..Len(dResult) :
            /\ dResult[k].rating \in 0..5
            /\ dResult[k].rating = dLinks[dResult[k].link].container.svgs

\* C27: whatever the document holds, no entry of the list returned by
\* extractReviewsFromDOM was built from a link whose container holds the
\* official-response marker; every entry was built from a link with text
\* and a container.
C27_NoOfficialResponses ==
    dPc = "done" =>
        \A k \in 1..Len(dResult) :
            LET link == dLinks[dResult[k].link] IN
              /\ link.container # NoContainer
              /\ ~link.container.official
              /\ link.text = dResult[k].text
              /\ link.text # <<>>

\* an official response precedes a review and only the review was returned
C27_Witness ==
    /\ dPc = "done"
    /\ Len(dLinks) = 2
    /\ dLinks[1].container # NoContainer /\ dLinks[1].container.official
    /\ dLinks[1].text = Good
    /\ dLinks[2].container # NoContainer /\ ~dLinks[2].container.official
    /\ dLinks[2].text = Bad
    /\ Len(dResult) = 1
    /\ dResult[1].text = Bad


\* the data of a list file: its data property when it has one, else the
\* parsed content itself
FileData(file) ==
    IF file.t = "obj" /\ "data" \in DOMAIN file.v /\ Truthy(file.v.data)
      THEN file.v.data ELSE file

HasId(entry, f) == f \in DOMAIN entry.v /\ entry.v[f] \notin {Absent, Str("")}

\* the identifier of an entry: its orgId, or its firmId when it has no orgId
EntryId(entry) ==
    IF HasId(entry, "orgId") THEN entry.v.orgId
    ELSE IF HasId(entry, "firmId") THEN entry.v.firmId
    ELSE Absent

IsIdentifier(x) == x # Absent

StepOrder ==
    {<<"idle", "goto">>, <<"goto", "wait">>, <<"wait", "extract">>, <<"extract", "check">>,
     <<"check", "reviews">>, <<"check", "return">>, <<"reviews", "return">>}
        \cup {<<st, "idle">> : st \in {"goto", "wait", "check", "return"}}

\* C28: within an attempt the steps follow one another in the order
\* navigate, wait for the state object, extract, normalize, review
\* pagination: extraction starts only from a state wait that succeeded; a
\* record is built only from an extraction that is not null; scrapeReviews is
\* invoked only in full-with-reviews mode, after the record was built; an
\* attempt whose navigation or state wait failed, or whose extraction was
\* null, ends with neither.
C28_StepOrder ==
    /\ [][sPc' # sPc => <<sPc, sPc'>> \in StepOrder]_vars
    /\ [][(sOrg' # sOrg /\ sOrg = NoRecord) => (sPc = "check" /\ ~sExtraction.isNull)]_vars
    /\ [][sReviewLog' # sReviewLog
            => (sPc = "reviews" /\ sOrg # NoRecord /\ ~sExtraction.isNull
                  /\ options.scrapingMode = "full-with-reviews")]_vars
    /\ [][(sPc \in {"goto", "wait"} /\ sPc' = "idle")
            => (sOrg = NoRecord /\ sOrg' = NoRecord /\ sReviewLog' = sReviewLog
                  /\ rFails' = rFails + 1)]_vars
    /\ [][(sPc = "check" /\ sExtraction.isNull)
            => (sPc' = "idle" /\ sOrg' = NoRecord /\ sReviewLog' = sReviewLog
                  /\ rFails' = rFails + 1)]_vars
    /\ [](sPc \in {"goto", "wait", "extract", "check"} => sOrg = NoRecord)
    /\ [](sPc \in {"reviews", "return"} => (sOrg # NoRecord /\ ~sExtraction.isNull))

\* an attempt in full-with-reviews mode went through every step and is about
\* to return a record with reviews
C28_Witness ==
    /\ sPc = "return"
    /\ options.scrapingMode = "full-with-reviews"
    /\ ~sExtraction.isNull
    /\ HasReviews(sOrg)
    /\ rAttempt = 2

\* C29: an attempt is in flight only for the current target, inside the
\* withRetry call the loop is waiting for, and only when every earlier
\* target has been finished and logged, in the order of the target list; the
\* loop moves to the next target only when no attempt is in flight and
\* withRetry has settled.
C29_OneTargetAtATime ==
    /\ [](sPc # "idle"
            => (oPc = "fullWait" /\ rPc = "loop" /\ oI < totalToScrape /\ Len(oLog) = oI))
    /\ [](\A k \in 1..Len(oLog) : oLog[k].target = targets[k])
    /\ [](Len(sReviewLog) <= Len(oLog) + 1)
    /\ [][(oPc = "fullWait" /\ oI' # oI)
            => (sPc = "idle" /\ rPc = "done" /\ oI' = oI + 1)]_vars
    /\ [][(oPc = "fullWait" /\ sPc = "idle" /\ sPc' = "goto")
            => (rPc = "loop" /\ oI' = oI /\ Len(oLog) = oI)]_vars

\* the navigation for the second target is about to start; the first target
\* took two attempts and its reviews were paginated
C29_Witness ==
    /\ sPc = "goto"
    /\ oI = 1
    /\ Len(oLog) = 1
    /\ oLog[1].calls = 2 /\ oLog[1].ok
    /\ sReviewLog = <<1>>

\* C30: whenever a page.goto for a target is about to be issued and an
\* earlier page.goto was issued in this run, at least delayMs ms have been
\* slept since that earlier one.
C30_DelayRespected ==
    (sPc = "goto" /\ sWaited # -1) => sWaited >= sDelayMs

\* C31: within one call of scrapeSearchResults closeBrowser is invoked at
\* most once, so never on a browser that is already closed.
C31_BrowserClosedOnce ==
    closeCalls <= 1

\* C32: in the from-list loop, the full loop and the list-mode loop, each
\* time a target has been handled the output holds successCount records and
\* successCount + failureCount is the number of targets handled so far;
\* when a full or full-with-reviews search run ends without an exception,
\* successCount + failureCount is the number of selected targets.
C32_CountersMatchOutput ==
    /\ oPc \in {"fromListLoop", "fromListWait", "fullLoop", "fullWait", "listLoop"} =>
         /\ Len(organizations) = successCount
         /\ Len(rawData) = successCount
         /\ successCount + failureCount = oI
    /\ (SearchRun /\ oPc \in {"finally", "returned"} /\ oExc = "none") =>
         /\ Len(organizations) = successCount
         /\ successCount + failureCount = totalToScrape

\* a full search run over two targets returned with one success and one
\* failure
C32_Witness ==
    /\ SearchRun
    /\ oPc = "returned"
    /\ totalToScrape = 2
    /\ successCount = 1
    /\ failureCount = 1
    /\ Len(organizations) = 1

\* the targets whose withRetry call returned a result, in the order in which
\* they were handled
SucceededTargets ==
    LET okEntries == SelectSeq(oLog, LAMBDA e : e.ok)
    IN [k \in 1..Len(okEntries) |-> okEntries[k].target]

\* C33: in the from-list loop and the full loop the k-th handled target is
\* the k-th selected target, and the output lists hold exactly one record and
\* one raw item per successful target, in the order of the target list: the
\* output is an order-preserving subsequence of the targets.
C33_OutputFollowsTargetOrder ==
    (MultiTargetRun /\ oExc = "none") =>
        /\ Len(oLog) <= totalToScrape
        /\ \A k \in 1..Len(oLog) : oLog[k].target = targets[k]
        /\ [k \in 1..Len(rawData) |-> rawData[k].url] = SucceededTargets
        /\ Len(organizations) = Len(SucceededTargets)
        /\ \A k \in 1..Len(organizations) :
             [f \in DOMAIN organizations[k] \ {"reviews"} |-> organizations[k][f]]
                 = PageRecords[SucceededTargets[k]]

\* two different targets were both scraped and their records returned in
\* target order
C33_Witness ==
    /\ MultiTargetRun
    /\ oPc = "returned"
    /\ Len(targets) = 2
    /\ targets[1] # targets[2]
    /\ Len(rawData) = 2
    /\ rawData[1].url = targets[1]
    /\ rawData[2].url = targets[2]
    /\ organizations[1].name # organizations[2].name

\* a run over search results or over a list file (options.maxRecords in the
\* model is never negative)
CappedRun == options.fromList \/ (options.orgId = 0 /\ options.query)

\* C34: in a search run and in a from-list run no more than maxRecords
\* targets are selected or handed to withRetry and no more than maxRecords
\* records and raw items are in the output; a search run takes its targets
\* from at most the first 50 result links.
C34_MaxRecordsCap ==
    CappedRun =>
        /\ totalToScrape <= options.maxRecords
        /\ Len(oLog) <= options.maxRecords
        /\ oPc \in {"fromListWait", "fullWait"} => oI < options.maxRecords
        /\ Len(organizations) <= options.maxRecords
        /\ Len(rawData) <= options.maxRecords
        /\ Len(basicData) <= options.maxRecords
        /\ ~options.fromList => Len(targets) <= MaxResultLinks

\* the search page showed more than 50 links: 50 were kept, maxRecords of
\* them were attempted and scraped
C34_Witness ==
    /\ CappedRun
    /\ ~options.fromList
    /\ oPc = "returned"
    /\ Len(targets) = MaxResultLinks
    /\ options.maxRecords = 2
    /\ Len(oLog) = 2
    /\ Len(organizations) = 2

\* C35: an intercepted response used to build the record of a target was
\* sent for that target's own page, never for the page of a target visited
\* before.
C35_CapturedResponseIsOwn ==
    \A k \in 1..Len(cUsed) :
        cUsed[k].extraction.source = "api" => cUsed[k].extraction.item.id = cUsed[k].target

\* extraction and normalization of the current attempt have succeeded
AttemptHasRecord == sPc \in {"reviews", "inReviews", "return"}

\* C36: in full-with-reviews mode an attempt whose extraction and
\* normalization succeeded stays successful whatever happens inside review
\* pagination: when scrapeReviews settles, failed inside or not, the attempt
\* goes on to return a record that has a reviews list; the attempt is never
\* counted as failed, withRetry settles on its record without another
\* attempt, and the loop counts the target in successCount.
C36_ReviewFailureKeepsRecord ==
    /\ [][(sPc = "inReviews" /\ sPc' # sPc)
            => (sPc' = "return" /\ "reviews" \in DOMAIN sOrg' /\ rFails' = rFails)]_vars
    /\ [][AttemptHasRecord => (rFails' = rFails /\ failureCount' = failureCount)]_vars
    /\ [][(sPc = "return" /\ sPc' # sPc)
            => (rPc' = "done" /\ rResult'.kind = "value"
                  /\ rResult'.organization = sOrg /\ rCalls' = rCalls + 1)]_vars
    /\ [](AttemptHasRecord => (oPc = "fullWait" /\ rPc = "loop" /\ sOrg # NoRecord))
    /\ [][(oPc = "fullWait" /\ oPc' = "fullLoop" /\ rPc = "done" /\ rResult.kind = "value")
            => (successCount' = successCount + 1 /\ failureCount' = failureCount
                  /\ organizations' = Append(organizations, rResult.organization))]_vars

\* the review pagination of the second target failed at its own navigation
\* in the first attempt, and that attempt is about to return the record with
\* an empty reviews list
C36_Witness ==
    /\ options.scrapingMode = "full-with-reviews"
    /\ sPc = "return"
    /\ vFailedAt = "goto"
    /\ oI = 1
    /\ rCalls = 0
    /\ rFails = 0
    /\ sReviewLog = <<1, 2>>
    /\ sOrg.reviews = <<>>
    /\ failureCount = 0

\* C37: a review that is both an entry of the embedded state and a rendered
\* review of the document (whose pseudo id no other rendered review shares)
\* is held once in the collection scrapeReviews returns: never under its
\* native id and under its pseudo id together.
C37_CrossPhaseDuplicatesRemoved ==
    vPc = "done" =>
        \A k \in 1..Len(dLinks) :
            (\A j \in 1..Len(dLinks) : j # k => LinkDomId(dLinks[j]) # LinkDomId(dLinks[k]))
                => ~(/\ NativeId(k) \in Range(vResult)
                     /\ LinkDomId(dLinks[k]) \in Range(vResult))

\* two links of the document agree on author, date and the first 20
\* characters of the text
SameIdParts(a, b) ==
    /\ a.container.author = b.container.author
    /\ a.container.date = b.container.date
    /\ Slice(a.text, IdPrefixLen) = Slice(b.text, IdPrefixLen)

\* the number of entries of a collection with the given id
Occurrences(coll, id) == Cardinality({k \in 1..Len(coll) : coll[k] = id})

\* C38: when scrapeReviews returns, after at least one scrape of the
\* document and below the cap, two rendered reviews agreeing on author, date
\* and 20-character text prefix have one pseudo id, held once, and two
\* rendered reviews differing in any of the three are both held.
C38_DomIdDecidesKept ==
    (vPc = "done" /\ vFailedAt = "none" /\ dPc = "done" /\ Len(vResult) < vMaxReviews) =>
        \A i, j \in 1..Len(dLinks) :
            i < j =>
                IF SameIdParts(dLinks[i], dLinks[j])
                  THEN /\ LinkDomId(dLinks[i]) = LinkDomId(dLinks[j])
                       /\ Occurrences(vResult, LinkDomId(dLinks[i])) = 1
                  ELSE /\ LinkDomId(dLinks[i]) \in Range(vResult)
                       /\ LinkDomId(dLinks[j]) \in Range(vResult)

\* no earlier link of the document has the text of link k
FirstOfText(k) == \A m \in 1..(k - 1) : dLinks[m].text # dLinks[k].text

\* what holds of C38: agreeing reviews share one id, held at most once and
\* exactly once when the text of the first was not seen before; differing
\* reviews are both held when neither repeats the text of an earlier link
C38_KeptUnlessSameText ==
    (vPc = "done" /\ vFailedAt = "none" /\ dPc = "done" /\ Len(vResult) < vMaxReviews) =>
        \A i, j \in 1..Len(dLinks) :
            i < j =>
                IF SameIdParts(dLinks[i], dLinks[j])
                  THEN /\ LinkDomId(dLinks[i]) = LinkDomId(dLinks[j])
                       /\ Occurrences(vResult, LinkDomId(dLinks[i])) <= 1
                       /\ FirstOfText(i) => Occurrences(vResult, LinkDomId(dLinks[i])) = 1
                  ELSE (FirstOfText(i) /\ FirstOfText(j)) =>
                       /\ LinkDomId(dLinks[i]) \in Range(vResult)
                       /\ LinkDomId(dLinks[j]) \in Range(vResult)

\* the place of scrapeSearchResults in its control flow, falling along it
OrchRank ==
    CASE oPc = "start" -> 9
      [] oPc = "dispatch" -> 8
      [] oPc \in {"readList", "single", "nav"} -> 7
      [] oPc = "results" -> 6
      [] oPc = "urls" -> 5
      [] oPc = "listEval" -> 4
      [] oPc \in {"fromListLoop", "fromListWait", "fullLoop", "fullWait", "listLoop"} -> 3
      [] oPc = "finally" -> 2
      [] OTHER -> 0

\* the iterations a per-target loop has left, the top of the loop before
\* the await of the same iteration
LoopRank ==
    IF oPc \in {"fromListLoop", "fullLoop", "listLoop"} THEN 2 * (totalToScrape - oI) + 1
    ELSE IF oPc \in {"fromListWait", "fullWait"} THEN 2 * (totalToScrape - oI)
    ELSE 0

\* the attempts withRetry has left, and within one attempt the call of fn
\* before the catch block
RetryRank ==
    3 * (rMaxRetries + 1 - rAttempt)
        + (CASE rPc = "loop" -> 2 [] rPc = "catch" -> 1 [] OTHER -> 0)

\* the steps scrapeSingleOrganization has left in one attempt
PageRank ==
    CASE sPc = "idle" -> 8
      [] sPc = "goto" -> 7
      [] sPc = "wait" -> 6
      [] sPc = "extract" -> 5
      [] sPc = "check" -> 4
      [] sPc = "reviews" -> 3
      [] sPc = "inReviews" -> 2
      [] sPc = "return" -> 1
      [] OTHER -> 0

\* the place of scrapeReviews in its control flow
RevRank ==
    CASE vPc = "goto" -> 7
      [] vPc = "waitState" -> 6
      [] vPc = "bulk" -> 5
      [] vPc \in {"loop", "click", "scrape"} -> 4
      [] vPc = "return" -> 3
      [] vPc = "catch" -> 2
      [] vPc \in {"done", "threw"} -> 1
      [] OTHER -> 0

\* the clicks the pagination loop has left: the scrape that follows click
\* number c comes before the loop test that follows it, and that before
\* click number c + 1
ClickRank ==
    IF vPc \in {"loop", "click", "scrape"}
      THEN 3 * (MaxClicks - clickCount)
             + (CASE vPc = "scrape" -> 3 [] vPc = "loop" -> 2 [] OTHER -> 1)
      ELSE 0

Measure == <<OrchRank, LoopRank, RetryRank, PageRank, RevRank, ClickRank>>

\* the lexicographic order on tuples of one length
LexLess(a, b) ==
    \E k \in 1..Len(a) : a[k] < b[k] /\ \A m \in 1..(k - 1) : a[m] = b[m]

RECURSIVE SumCalls(_)
SumCalls(log) == IF log = <<>> THEN 0 ELSE Head(log).calls + SumCalls(Tail(log))

\* the detail-page attempts begun so far: those of the targets done with,
\* those counted by the pending withRetry call, and the one in progress
AttemptsSoFar ==
    SumCalls(oLog) + (IF rOp = "org" THEN rCalls ELSE 0) + (IF sPc = "idle" THEN 0 ELSE 1)

\* the targets selected for scraping: the one of --org-id, or the first
\* totalToScrape of the list file or of the result links
SelectedTargets ==
    IF ~options.fromList /\ options.orgId # 0 THEN 1 ELSE totalToScrape

Terminated == oPc \in {"returned", "threw"}

\* until scrapeSearchResults has returned or thrown, a step is possible
C39_NoStuckState == ~Terminated => ENABLED SpecRunNext

====
